---- MODULE Spec2Model ----
(***************************************************************************)
(* Parallel speculative transaction execution scheduler:                   *)
(*   - QueueWithRetry  (dispatch queue: fresh-task channel + retry heap)    *)
(*   - ResultsQueue    (result channel + TxNum-ordered heap)                *)
(*   - Worker.Run      (Next -> RunTxTask -> ResultsQueue.Add)              *)
(*   - execStatusManager (pending / inProgress / complete + dependencies)   *)
(* Tasks and results are records; only the fields the scheduler reads are   *)
(* kept: Version().TxNum, and the number of the attempt (inc).              *)
(***************************************************************************)
EXTENDS Integers, Sequences, FiniteSets, TLC

\* ------------------------------------------------------------------ bounds
\* number of fresh tasks the producer submits through Add (TxNum 0..MaxTx-1)
MaxTx == 2
\* number of tasks passed to ReTry in the dispatch-queue model (TxNum 0..MaxRetry-1)
MaxRetry == 2
\* largest capacity of the fresh-task channel (NewQueueWithRetry(capacity))
MaxCap == 2

\* largest heapLimit of the ResultsQueue (NewResultsQueue(_, heapLimit))
MaxLimit == 1
\* capacity of the result channel (NewResultsQueue(resultChannelLimit, _))
ResultCap == 2
\* number of tasks of the status manager (newStatusManager(numTasks))
NumTasks == 3
\* largest index in the lists given to maxAllComplete and getRevalidationRange
MaxIdx == 6

Workers == {"w1", "w2"}
TxNums == 0 .. (MaxTx - 1)
\* the transaction indices of the status manager
TxIdx == 0 .. (NumTasks - 1)

\* a nil Task, as ReTry sends it through newTasks to wake a blocked Next
Nil == [txNum |-> -1, inc |-> 0]
\* a task submitted by Add (inc = 0) or resubmitted by ReTry (inc >= 1)
Task(n, k) == [txNum |-> n, inc |-> k]
\* the Result of executing task t: Result{Task: t, Err: ...}; ok is Err == nil
Result(t, ok) == [txNum |-> t.txNum, inc |-> t.inc, ok |-> ok]
\* a nil *Result
NoResult == [txNum |-> -1, inc |-> 0, ok |-> FALSE]

\* ------------------------------------------------------- TxTaskQueue (heap)
\* Less(i, j): h[i].Version().TxNum < h[j].Version().TxNum
LessMax(h, i, j) == h[i].txNum > h[j].txNum
Less(h, i, j) == h[i].txNum < h[j].txNum

Swap(h, i, j) == [h EXCEPT ![i] = h[j], ![j] = h[i]]

\* container/heap up(h, j), indices from 1: the parent of j is j \div 2
RECURSIVE up(_, _)
up(h, j) ==
    IF j = 1 THEN h
    ELSE LET i == j \div 2 IN
         IF ~Less(h, j, i) THEN h ELSE up(Swap(h, i, j), i)

\* container/heap down(h, i, n), indices from 1: the children of i are 2i, 2i+1
RECURSIVE down(_, _, _)
down(h, i, n) ==
    LET j1 == 2 * i IN
    IF j1 > n THEN h
    ELSE LET j == IF j1 + 1 <= n /\ Less(h, j1 + 1, j1) THEN j1 + 1 ELSE j1 IN
         IF ~Less(h, j, i) THEN h ELSE down(Swap(h, i, j), j, n)

\* heap.Push(h, x): TxTaskQueue.Push appends, then up(h, Len-1)
HeapPush(h, x) == up(Append(h, x), Len(h) + 1)

\* heap.Pop(h): Swap(0, n); down(0, n); TxTaskQueue.Pop takes the last element
HeapSifted(h) == down(Swap(h, 1, Len(h)), 1, Len(h) - 1)
\* heap.Pop without the Swap(0, n): the last element of the array is returned
HeapPopUnswapped(h) == h[Len(h)]
HeapPopValue(h) == HeapSifted(h)[Len(h)]
HeapPopRest(h) == SubSeq(HeapSifted(h), 1, Len(h) - 1)

\* the elements of a sequence, as a set
Elems(s) == {s[i] : i \in DOMAIN s}
\* how many times x occurs in s
Count(s, x) == Cardinality({i \in DOMAIN s : s[i] = x})
\* the smallest TxNum of a non-empty sequence of tasks or results
MinTxNum(s) == CHOOSE m \in {s[i].txNum : i \in DOMAIN s} :
                   \A i \in DOMAIN s : m <= s[i].txNum

VARIABLES
    \* QueueWithRetry
    capacity,    \* q.capacity = cap(q.newTasks)
    newTasks,    \* q.newTasks: the buffered channel's content, oldest first
    chClosed,    \* close(q.newTasks) has been executed
    closed,      \* q.closed
    retires,     \* q.retires: the retry heap (guarded by retiresLock)
    ctxDone,     \* the context passed to Add / Next is cancelled
    panicked,    \* a goroutine panicked (send on / close of a closed channel)
    \* callers of the dispatch queue
    nextAdd,     \* producer: TxNum of the next fresh task passed to Add
    rpc, rtask,  \* the goroutine calling ReTry: position and argument
    retried,     \* tasks pushed onto the heap by ReTry so far
    cpc,         \* the goroutine calling QueueWithRetry.Close: position
    rcpc,        \* the goroutine calling ResultsQueue.Close: position
    cpcB,        \* a second goroutine calling QueueWithRetry.Close: position
    \* workers: position, popWait's inTask, the task Next returned, the
    \* Result of RunTxTask, and the holder of the pool's shared lock
    pc, inTask, task, result, execLock,
    \* the kind of sync.Locker the pool was given, and the workers holding
    \* it in shared mode when it is a read locker
    lockKind, readers,
    \* history of a worker's current Next call
    path, seen, start,
    \* history: the tasks Next has returned so far
    handed,
    \* ResultsQueue
    limit,       \* q.limit (heapLimit)
    resultCap,   \* cap(q.resultCh)
    resultCh,    \* q.resultCh: the buffered channel's content, oldest first
    rchClosed,   \* close(q.resultCh) has been executed
    rclosed,     \* q.closed
    results,     \* q.results: the heap of results (guarded by the mutex)
    \* the commit loop (the one consumer of the ResultsQueue)
    lpc,         \* position of the commit loop
    drained,     \* Drain: the result taken by the blocking receive
    sweepFrom,   \* drainNoBlock: len(results) when its loop began
    cur,         \* the result PopNext returned
    outputTxNum, \* TxNum the commit loop expects next
    popped,      \* history: results returned by PopNext, in order
    offered,     \* history: results passed to Add or Push so far
    toRetry,     \* tasks whose resubmission through ReTry is due
    \* execStatusManager
    pending, inProgress, complete, dependency, blocker,
    smLast,      \* history: the last status-manager call and what it returned
    \* the workers pool
    clearDone,   \* NewWorkersPool: var clearDone bool
    clpc         \* the goroutine calling clear: position

qvars == <<capacity, newTasks, chClosed, closed, retires, ctxDone, panicked>>
evars == <<nextAdd, rpc, rtask, retried, cpc, cpcB, rcpc>>
wvars == <<pc, inTask, task, path, seen, start, result, execLock, lockKind, readers>>
rvars == <<limit, resultCap, resultCh, rchClosed, rclosed, results>>
lvars == <<lpc, drained, sweepFrom, cur, outputTxNum, popped, offered>>
svars == <<pending, inProgress, complete, dependency, blocker, smLast>>
pvars == <<clearDone, clpc>>
\* everything outside the dispatch queue, its callers and the workers
xq == <<rvars, lvars, svars, pvars>>
vars == <<qvars, evars, wvars, handed, toRetry, rvars, lvars, svars, pvars>>

\* ------------------------------------------------------ QueueWithRetry.Add
\* select { case q.newTasks <- t }: the send goes through when there is room
AddSend ==
    /\ ~panicked
    /\ nextAdd < MaxTx
    /\ ~chClosed
    /\ Len(newTasks) < capacity
    /\ newTasks' = Append(newTasks, Task(nextAdd, 0))
    /\ nextAdd' = nextAdd + 1
    /\ UNCHANGED <<capacity, chClosed, closed, retires, ctxDone, panicked>>
    /\ UNCHANGED <<rpc, rtask, retried, cpc, rcpc, cpcB, wvars, handed, toRetry, xq>>

\* the TxNum of the k-th task (k = 0, 1, ...) of a producer that submits its
\* tasks in descending TxNum order
Submitted(k) == MaxTx - 1 - k

\* Add called by a producer that does not submit in ascending order
AddSendDescending ==
    /\ ~panicked
    /\ nextAdd < MaxTx
    /\ ~chClosed
    /\ Len(newTasks) < capacity
    /\ newTasks' = Append(newTasks, Task(Submitted(nextAdd), 0))
    /\ nextAdd' = nextAdd + 1
    /\ UNCHANGED <<capacity, chClosed, closed, retires, ctxDone, panicked>>
    /\ UNCHANGED <<rpc, rtask, retried, cpc, rcpc, cpcB, wvars, handed, toRetry, xq>>

\* select { case <-ctx.Done(): return }: the task is not enqueued; the
\* producer, whose context is cancelled, submits nothing more
AddCancelled ==
    /\ ~panicked
    /\ nextAdd < MaxTx
    /\ ctxDone
    /\ nextAdd' = MaxTx
    /\ UNCHANGED <<qvars, rpc, rtask, retried, cpc, rcpc, cpcB, wvars, handed, toRetry, xq>>

\* a send on a closed channel panics
AddOnClosed ==
    /\ ~panicked
    /\ nextAdd < MaxTx
    /\ chClosed
    /\ panicked' = TRUE
    /\ UNCHANGED <<capacity, newTasks, chClosed, closed, retires, ctxDone>>
    /\ UNCHANGED <<evars, wvars, handed, toRetry, xq>>

\* ---------------------------------------------------- QueueWithRetry.ReTry
\* retiresLock.Lock(); heap.Push(&q.retires, t); retiresLock.Unlock()
ReTryPush(t) ==
    /\ ~panicked
    /\ rpc = "idle"
    /\ t \in toRetry
    /\ retires' = HeapPush(retires, t)
    /\ retried' = retried \cup {t}
    /\ toRetry' = toRetry \ {t}
    /\ rtask' = t
    /\ rpc' = "chk"
    /\ UNCHANGED <<capacity, newTasks, chClosed, closed, ctxDone, panicked>>
    /\ UNCHANGED <<nextAdd, cpc, rcpc, cpcB, wvars, handed, xq>>

\* if q.closed { return }
ReTryCheckClosed ==
    /\ ~panicked
    /\ rpc = "chk"
    /\ rpc' = IF closed THEN "idle" ELSE "send"
    /\ UNCHANGED <<qvars, nextAdd, rtask, retried, cpc, rcpc, cpcB, wvars, handed, toRetry, xq>>

\* select { case q.newTasks <- nil: default: }
ReTrySignal ==
    /\ ~panicked
    /\ rpc = "send"
    /\ rpc' = "idle"
    /\ IF chClosed
       THEN /\ panicked' = TRUE
            /\ UNCHANGED newTasks
       ELSE /\ newTasks' = IF Len(newTasks) < capacity
                           THEN Append(newTasks, Nil) ELSE newTasks
            /\ UNCHANGED panicked
    /\ UNCHANGED <<capacity, chClosed, closed, retires, ctxDone>>
    /\ UNCHANGED <<nextAdd, rtask, retried, cpc, rcpc, cpcB, wvars, handed, toRetry, xq>>

\* ---------------------------------------------------- QueueWithRetry.Close
\* Close entered without the test of q.closed
CloseCheckAlways ==
    /\ ~panicked
    /\ cpc \in {"idle", "returned"}
    /\ cpc' = "set"
    /\ UNCHANGED <<qvars, nextAdd, rpc, rtask, retried, rcpc, cpcB, wvars, handed, toRetry, xq>>

\* if q.closed { return }
CloseCheck ==
    /\ ~panicked
    /\ cpc \in {"idle", "returned"}
    /\ cpc' = IF closed THEN "again" ELSE "set"
    /\ UNCHANGED <<qvars, nextAdd, rpc, rtask, retried, rcpc, cpcB, wvars, handed, toRetry, xq>>

\* q.closed = true
CloseSet ==
    /\ ~panicked
    /\ cpc = "set"
    /\ closed' = TRUE
    /\ cpc' = "chan"
    /\ UNCHANGED <<capacity, newTasks, chClosed, retires, ctxDone, panicked>>
    /\ UNCHANGED <<nextAdd, rpc, rtask, retried, rcpc, cpcB, wvars, handed, toRetry, xq>>

\* close(q.newTasks)
CloseChan ==
    /\ ~panicked
    /\ cpc = "chan"
    /\ cpc' = "returned"
    /\ IF chClosed
       THEN panicked' = TRUE /\ UNCHANGED chClosed
       ELSE chClosed' = TRUE /\ UNCHANGED panicked
    /\ UNCHANGED <<capacity, newTasks, closed, retires, ctxDone>>
    /\ UNCHANGED <<nextAdd, rpc, rtask, retried, rcpc, cpcB, wvars, handed, toRetry, xq>>

\* Close called by a second goroutine: if q.closed { return }
CloseCheckB ==
    /\ ~panicked
    /\ cpcB = "idle"
    /\ cpcB' = IF closed THEN "again" ELSE "set"
    /\ UNCHANGED <<qvars, nextAdd, rpc, rtask, retried, cpc, rcpc, wvars, handed, toRetry, xq>>

\* q.closed = true
CloseSetB ==
    /\ ~panicked
    /\ cpcB = "set"
    /\ closed' = TRUE
    /\ cpcB' = "chan"
    /\ UNCHANGED <<capacity, newTasks, chClosed, retires, ctxDone, panicked>>
    /\ UNCHANGED <<nextAdd, rpc, rtask, retried, cpc, rcpc, wvars, handed, toRetry, xq>>

\* close(q.newTasks): closing a closed channel panics
CloseChanB ==
    /\ ~panicked
    /\ cpcB = "chan"
    /\ cpcB' = "returned"
    /\ IF chClosed
       THEN panicked' = TRUE /\ UNCHANGED chClosed
       ELSE chClosed' = TRUE /\ UNCHANGED panicked
    /\ UNCHANGED <<capacity, newTasks, closed, retires, ctxDone>>
    /\ UNCHANGED <<nextAdd, rpc, rtask, retried, cpc, rcpc, wvars, handed, toRetry, xq>>

\* the context is cancelled
Cancel ==
    /\ ~panicked
    /\ ~ctxDone
    /\ ctxDone' = TRUE
    /\ UNCHANGED <<capacity, newTasks, chClosed, closed, retires, panicked>>
    /\ UNCHANGED <<evars, wvars, handed, toRetry, xq>>

\* ----------------------------------------------------- QueueWithRetry.Next
\* What a worker remembers of the Next call that gave it its task: the path
\* the call took ("heap": popNoWait's heap pop, "chan": popNoWait's channel
\* read, "wait": popWait on the open channel, "closed": popWait on the closed
\* channel), whether it found a task pushed by ReTry in the heap when it took
\* its task (seen), what popWait received (inTask) and the tasks ReTry had
\* pushed before the call took retiresLock (start).

\* a task pushed by ReTry (inc >= 1) is in the heap h
RetriedIn(h) == \E i \in DOMAIN h : h[i].inc >= 1

\* popNoWait reading the fresh-task channel before the retry heap
PopNoWaitChanFirst(w) ==
    /\ ~panicked
    /\ pc[w] = "idle"
    /\ start' = [start EXCEPT ![w] = retried]
    /\ IF newTasks # <<>> /\ Head(newTasks) # Nil
       THEN /\ task' = [task EXCEPT ![w] = Head(newTasks)]
            /\ newTasks' = Tail(newTasks)
            /\ path' = [path EXCEPT ![w] = "chan"]
            /\ seen' = [seen EXCEPT ![w] = RetriedIn(retires)]
            /\ handed' = handed \cup {Head(newTasks)}
            /\ pc' = [pc EXCEPT ![w] = "got"]
            /\ UNCHANGED retires
       ELSE /\ pc' = [pc EXCEPT ![w] = "nowait_ch"]
            /\ UNCHANGED <<retires, newTasks, task, path, seen, handed>>
    /\ UNCHANGED <<capacity, chClosed, closed, ctxDone, panicked>>
    /\ UNCHANGED <<evars, inTask, toRetry, result, execLock, lockKind, readers, xq>>

\* popNoWait, the part under retiresLock: pop the heap when it has a task
PopNoWaitLocked(w) ==
    /\ ~panicked
    /\ pc[w] = "idle"
    /\ start' = [start EXCEPT ![w] = retried]
    /\ IF Len(retires) > 0
       THEN /\ task' = [task EXCEPT ![w] = HeapPopValue(retires)]
            /\ retires' = HeapPopRest(retires)
            /\ path' = [path EXCEPT ![w] = "heap"]
            /\ seen' = [seen EXCEPT ![w] = RetriedIn(retires)]
            /\ handed' = handed \cup {HeapPopValue(retires)}
            /\ pc' = [pc EXCEPT ![w] = "got"]
       ELSE /\ pc' = [pc EXCEPT ![w] = "nowait_ch"]
            /\ UNCHANGED <<retires, task, path, seen, handed>>
    /\ UNCHANGED <<capacity, newTasks, chClosed, closed, ctxDone, panicked>>
    /\ UNCHANGED <<evars, inTask, toRetry, result, execLock, lockKind, readers, xq>>

\* a popNoWait that takes the entry of smallest TxNum out of the channel
PopNoWaitChanMin(w) ==
    /\ ~panicked
    /\ pc[w] = "nowait_ch"
    /\ IF newTasks # <<>>
       THEN LET i == CHOOSE i \in DOMAIN newTasks :
                        \A j \in DOMAIN newTasks : newTasks[i].txNum <= newTasks[j].txNum
            IN  /\ newTasks' = SubSeq(newTasks, 1, i - 1) \o SubSeq(newTasks, i + 1, Len(newTasks))
                /\ IF newTasks[i] = Nil
                   THEN UNCHANGED <<pc, task, path, seen, handed>>
                   ELSE /\ task' = [task EXCEPT ![w] = newTasks[i]]
                        /\ path' = [path EXCEPT ![w] = "chan"]
                        /\ seen' = [seen EXCEPT ![w] = RetriedIn(retires)]
                        /\ handed' = handed \cup {newTasks[i]}
                        /\ pc' = [pc EXCEPT ![w] = "got"]
       ELSE /\ pc' = [pc EXCEPT ![w] = "wait"]
            /\ UNCHANGED <<newTasks, task, path, seen, handed>>
    /\ UNCHANGED <<capacity, chClosed, closed, retires, ctxDone, panicked>>
    /\ UNCHANGED <<evars, inTask, start, toRetry, result, execLock, lockKind, readers, xq>>

\* popNoWait, the loop over the channel: a nil is skipped, a task is returned;
\* an empty or closed channel makes popNoWait return (nil, false) and Next
\* goes on with popWait
PopNoWaitChan(w) ==
    /\ ~panicked
    /\ pc[w] = "nowait_ch"
    /\ IF newTasks # <<>>
       THEN /\ newTasks' = Tail(newTasks)
            /\ IF Head(newTasks) = Nil
               THEN UNCHANGED <<pc, task, path, seen, handed>>
               ELSE /\ task' = [task EXCEPT ![w] = Head(newTasks)]
                    /\ path' = [path EXCEPT ![w] = "chan"]
                    /\ seen' = [seen EXCEPT ![w] = RetriedIn(retires)]
                    /\ handed' = handed \cup {Head(newTasks)}
                    /\ pc' = [pc EXCEPT ![w] = "got"]
       ELSE /\ pc' = [pc EXCEPT ![w] = "wait"]
            /\ UNCHANGED <<newTasks, task, path, seen, handed>>
    /\ UNCHANGED <<capacity, chClosed, closed, retires, ctxDone, panicked>>
    /\ UNCHANGED <<evars, inTask, start, toRetry, result, execLock, lockKind, readers, xq>>

\* popWait whose receive is never ready on a closed, empty channel
PopWaitRecvOpen(w) ==
    /\ ~panicked
    /\ pc[w] = "wait"
    /\ newTasks # <<>>
    /\ inTask' = [inTask EXCEPT ![w] = Head(newTasks)]
    /\ newTasks' = Tail(newTasks)
    /\ pc' = [pc EXCEPT ![w] = "wait_lk"]
    /\ UNCHANGED <<capacity, chClosed, closed, retires, ctxDone, panicked>>
    /\ UNCHANGED <<evars, task, path, seen, start, handed, toRetry, result, execLock, lockKind, readers, xq>>

\* popWait: case inTask, ok := <-q.newTasks
PopWaitRecv(w) ==
    /\ ~panicked
    /\ pc[w] = "wait"
    /\ newTasks # <<>> \/ chClosed
    /\ IF newTasks # <<>>
       THEN /\ inTask' = [inTask EXCEPT ![w] = Head(newTasks)]
            /\ newTasks' = Tail(newTasks)
            /\ pc' = [pc EXCEPT ![w] = "wait_lk"]
       ELSE /\ pc' = [pc EXCEPT ![w] = "wait_cl"]
            /\ UNCHANGED <<inTask, newTasks>>
    /\ UNCHANGED <<capacity, chClosed, closed, retires, ctxDone, panicked>>
    /\ UNCHANGED <<evars, task, path, seen, start, handed, toRetry, result, execLock, lockKind, readers, xq>>

\* popWait: case <-ctx.Done(): return nil, false
PopWaitCancelled(w) ==
    /\ ~panicked
    /\ pc[w] = "wait"
    /\ ctxDone
    /\ pc' = [pc EXCEPT ![w] = "stopped"]
    /\ UNCHANGED <<qvars, evars, inTask, task, path, seen, start, handed, toRetry, result, execLock, lockKind, readers, xq>>

\* a popWait that pushes the received task only when the heap is empty
PopWaitLockedNoPush(w) ==
    /\ ~panicked
    /\ pc[w] = "wait_lk"
    /\ LET h == IF inTask[w] # Nil /\ retires = <<>>
                THEN HeapPush(retires, inTask[w]) ELSE retires
       IN IF Len(h) > 0
          THEN /\ task' = [task EXCEPT ![w] = HeapPopValue(h)]
               /\ retires' = HeapPopRest(h)
               /\ path' = [path EXCEPT ![w] = "wait"]
               /\ seen' = [seen EXCEPT ![w] = RetriedIn(retires)]
               /\ handed' = handed \cup {HeapPopValue(h)}
               /\ pc' = [pc EXCEPT ![w] = "got"]
               /\ UNCHANGED inTask
          ELSE /\ pc' = [pc EXCEPT ![w] = "wait"]
               /\ inTask' = [inTask EXCEPT ![w] = Nil]
               /\ UNCHANGED <<retires, task, path, seen, handed>>
    /\ UNCHANGED <<capacity, newTasks, chClosed, closed, ctxDone, panicked>>
    /\ UNCHANGED <<evars, start, toRetry, result, execLock, lockKind, readers, xq>>

\* popWait after a receive from the open channel, under retiresLock: the
\* received task is pushed onto the heap, then the heap is popped
PopWaitLocked(w) ==
    /\ ~panicked
    /\ pc[w] = "wait_lk"
    /\ LET h == IF inTask[w] # Nil THEN HeapPush(retires, inTask[w]) ELSE retires
       IN IF Len(h) > 0
          THEN /\ task' = [task EXCEPT ![w] = HeapPopValue(h)]
               /\ retires' = HeapPopRest(h)
               /\ path' = [path EXCEPT ![w] = "wait"]
               /\ seen' = [seen EXCEPT ![w] = RetriedIn(retires)]
               /\ handed' = handed \cup {HeapPopValue(h)}
               /\ pc' = [pc EXCEPT ![w] = "got"]
               /\ UNCHANGED inTask
          ELSE /\ pc' = [pc EXCEPT ![w] = "wait"]
               /\ inTask' = [inTask EXCEPT ![w] = Nil]
               /\ UNCHANGED <<retires, task, path, seen, handed>>
    /\ UNCHANGED <<capacity, newTasks, chClosed, closed, ctxDone, panicked>>
    /\ UNCHANGED <<evars, start, toRetry, result, execLock, lockKind, readers, xq>>

\* popWait after a receive from the closed channel (!ok), under retiresLock:
\* the heap is popped when it has a task; return task, task != nil
PopWaitClosed(w) ==
    /\ ~panicked
    /\ pc[w] = "wait_cl"
    /\ IF Len(retires) > 0
       THEN /\ task' = [task EXCEPT ![w] = HeapPopValue(retires)]
            /\ retires' = HeapPopRest(retires)
            /\ path' = [path EXCEPT ![w] = "closed"]
            /\ seen' = [seen EXCEPT ![w] = RetriedIn(retires)]
            /\ handed' = handed \cup {HeapPopValue(retires)}
            /\ pc' = [pc EXCEPT ![w] = "got"]
       ELSE /\ pc' = [pc EXCEPT ![w] = "stopped"]
            /\ UNCHANGED <<retires, task, path, seen, handed>>
    /\ UNCHANGED <<capacity, newTasks, chClosed, closed, ctxDone, panicked>>
    /\ UNCHANGED <<evars, inTask, start, toRetry, result, execLock, lockKind, readers, xq>>

\* the caller of Next is done with the task it got and may call Next again
TaskDone(w) ==
    /\ ~panicked
    /\ pc[w] = "got"
    /\ pc' = [pc EXCEPT ![w] = "idle"]
    /\ task' = [task EXCEPT ![w] = Nil]
    /\ inTask' = [inTask EXCEPT ![w] = Nil]
    /\ path' = [path EXCEPT ![w] = "none"]
    /\ seen' = [seen EXCEPT ![w] = FALSE]
    /\ start' = [start EXCEPT ![w] = {}]
    /\ UNCHANGED <<qvars, evars, result, execLock, lockKind, readers, handed, toRetry, xq>>

\* -------------------------------------------------------------- Worker.Run
\* the sync.Locker handed to NewWorkersPool: a mutual-exclusion lock, or the
\* read side of a sync.RWMutex (RLocker), which any number of goroutines hold
\* at once while no writer holds the RWMutex
LockKinds == {"Mutex", "RLocker"}

\* rw.lock.Lock()
Lock(w) ==
    /\ UNCHANGED lockKind
    /\ IF lockKind = "Mutex"
       THEN /\ execLock = "free"
            /\ execLock' = w
            /\ UNCHANGED readers
       ELSE /\ readers' = readers \cup {w}
            /\ UNCHANGED execLock

\* rw.lock.Unlock()
Unlock(w) ==
    /\ UNCHANGED lockKind
    /\ IF lockKind = "Mutex"
       THEN /\ execLock' = "free"
            /\ UNCHANGED readers
       ELSE /\ readers' = readers \ {w}
            /\ UNCHANGED execLock

\* a RunTxTask that goes into RunTxTaskNoLock without rw.lock.Lock()
ExecBeginNoLock(w) ==
    /\ ~panicked
    /\ pc[w] = "got"
    /\ pc' = [pc EXCEPT ![w] = "exec"]
    /\ UNCHANGED <<qvars, evars, inTask, task, path, seen, start, result>>
    /\ UNCHANGED <<execLock, lockKind, readers, handed, toRetry, xq>>

\* RunTxTask: rw.lock.Lock(), the lock every worker of the pool shares
ExecBegin(w) ==
    /\ ~panicked
    /\ pc[w] = "got"
    /\ Lock(w)
    /\ pc' = [pc EXCEPT ![w] = "exec"]
    /\ UNCHANGED <<qvars, evars, inTask, task, path, seen, start, result>>
    /\ UNCHANGED <<handed, toRetry, xq>>

\* RunTxTaskNoLock handing back the Result without result.Task = txTask
ExecEndNoTask(w) ==
    /\ ~panicked
    /\ pc[w] = "exec"
    /\ \E ok \in BOOLEAN :
          /\ ok \/ (task[w].inc = 0 /\ task[w].txNum > outputTxNum)
          /\ result' = [result EXCEPT ![w] = Result(Task(0, 0), ok)]
    /\ Unlock(w)
    /\ pc' = [pc EXCEPT ![w] = "add"]
    /\ UNCHANGED <<qvars, evars, inTask, task, path, seen, start>>
    /\ UNCHANGED <<handed, toRetry, xq>>

\* RunTxTaskNoLock: txTask.Execute returns a Result for the task, with Err set
\* when the execution aborted on a TxNum that is not committed yet (at most
\* once per task here); result.Task = txTask; rw.lock.Unlock()
ExecEnd(w) ==
    /\ ~panicked
    /\ pc[w] = "exec"
    /\ \E ok \in BOOLEAN :
          /\ ok \/ (task[w].inc = 0 /\ task[w].txNum > outputTxNum)
          /\ result' = [result EXCEPT ![w] = Result(task[w], ok)]
    /\ Unlock(w)
    /\ pc' = [pc EXCEPT ![w] = "add"]
    /\ UNCHANGED <<qvars, evars, inTask, task, path, seen, start>>
    /\ UNCHANGED <<handed, toRetry, xq>>

\* an Add that sends the result twice when the buffer has room for both
ResultAddTwice(w) ==
    /\ ~panicked
    /\ pc[w] = "add"
    /\ ~rchClosed
    /\ Len(resultCh) < resultCap
    /\ resultCh' = IF Len(resultCh) + 1 < resultCap
                   THEN Append(Append(resultCh, result[w]), result[w])
                   ELSE Append(resultCh, result[w])
    /\ offered' = offered \cup {result[w]}
    /\ pc' = [pc EXCEPT ![w] = "idle"]
    /\ task' = [task EXCEPT ![w] = Nil]
    /\ inTask' = [inTask EXCEPT ![w] = Nil]
    /\ path' = [path EXCEPT ![w] = "none"]
    /\ seen' = [seen EXCEPT ![w] = FALSE]
    /\ start' = [start EXCEPT ![w] = {}]
    /\ result' = [result EXCEPT ![w] = NoResult]
    /\ UNCHANGED <<qvars, evars, execLock, lockKind, readers, handed, toRetry, svars, pvars>>
    /\ UNCHANGED <<limit, resultCap, rchClosed, rclosed, results>>
    /\ UNCHANGED <<lpc, drained, sweepFrom, cur, outputTxNum, popped>>

\* rw.resultCh.Add(rw.ctx, result): case q.resultCh <- task; Run loops to Next
ResultAdd(w) ==
    /\ ~panicked
    /\ pc[w] = "add"
    /\ ~rchClosed
    /\ Len(resultCh) < resultCap
    /\ resultCh' = Append(resultCh, result[w])
    /\ offered' = offered \cup {result[w]}
    /\ pc' = [pc EXCEPT ![w] = "idle"]
    /\ task' = [task EXCEPT ![w] = Nil]
    /\ inTask' = [inTask EXCEPT ![w] = Nil]
    /\ path' = [path EXCEPT ![w] = "none"]
    /\ seen' = [seen EXCEPT ![w] = FALSE]
    /\ start' = [start EXCEPT ![w] = {}]
    /\ result' = [result EXCEPT ![w] = NoResult]
    /\ UNCHANGED <<qvars, evars, execLock, lockKind, readers, handed, toRetry, svars, pvars>>
    /\ UNCHANGED <<limit, resultCap, rchClosed, rclosed, results>>
    /\ UNCHANGED <<lpc, drained, sweepFrom, cur, outputTxNum, popped>>

\* rw.resultCh.Add(rw.ctx, result): case <-ctx.Done(): Run returns ctx.Err()
ResultAddCancelled(w) ==
    /\ ~panicked
    /\ pc[w] = "add"
    /\ ctxDone
    /\ pc' = [pc EXCEPT ![w] = "failed"]
    /\ UNCHANGED <<qvars, evars, inTask, task, path, seen, start, result, execLock, lockKind, readers>>
    /\ UNCHANGED <<handed, toRetry, xq>>

\* ------------------------------------------------------------ ResultsQueue
\* Has(outputTxNum): len(results) > 0 && results[0].Version().TxNum == outputTxNum
HasNextOnly(h, n) == Len(h) > 0
HasAtLeast(h, n) == Len(h) > 0 /\ h[1].txNum >= n
Has(h, n) == Len(h) > 0 /\ h[1].txNum = n
\* HasNext(): len(results) > 0
HasNext(h) == Len(h) > 0

\* every result a caller may pass to Add or Push in the model of the
\* ResultsQueue on its own: two attempts of every task
ResultUniverse == {Result(Task(n, k), TRUE) : n \in TxNums, k \in 0 .. 1}

\* Add(ctx, r) by any caller: case q.resultCh <- task
RAdd(r) ==
    /\ ~panicked
    /\ r \notin offered
    /\ ~rchClosed
    /\ Len(resultCh) < resultCap
    /\ resultCh' = Append(resultCh, r)
    /\ offered' = offered \cup {r}
    /\ UNCHANGED <<qvars, evars, wvars, handed, toRetry, svars, pvars>>
    /\ UNCHANGED <<limit, resultCap, rchClosed, rclosed, results>>
    /\ UNCHANGED <<lpc, drained, sweepFrom, cur, outputTxNum, popped>>

\* Add(ctx, r) after Close: a send on a closed channel panics
RAddOnClosed(r) ==
    /\ ~panicked
    /\ r \notin offered
    /\ rchClosed
    /\ panicked' = TRUE
    /\ UNCHANGED <<capacity, newTasks, chClosed, closed, retires, ctxDone>>
    /\ UNCHANGED <<evars, wvars, handed, toRetry, xq>>

\* Push(t): q.Lock(); heap.Push(q.results, t); q.Unlock(). The mutex is held
\* by drainNoBlock while the commit loop is at "sweep".
Push(r) ==
    /\ ~panicked
    /\ r \notin offered
    /\ lpc # "sweep"
    /\ results' = HeapPush(results, r)
    /\ offered' = offered \cup {r}
    /\ UNCHANGED <<qvars, evars, wvars, handed, toRetry, svars, pvars>>
    /\ UNCHANGED <<limit, resultCap, resultCh, rchClosed, rclosed>>
    /\ UNCHANGED <<lpc, drained, sweepFrom, cur, outputTxNum, popped>>

\* Drain: case txTask, ok := <-q.resultCh, with ok
DrainRecv ==
    /\ ~panicked
    /\ lpc = "idle"
    /\ resultCh # <<>>
    /\ drained' = Head(resultCh)
    /\ resultCh' = Tail(resultCh)
    /\ lpc' = "lock"
    /\ UNCHANGED <<qvars, evars, wvars, handed, toRetry, svars, pvars>>
    /\ UNCHANGED <<limit, resultCap, rchClosed, rclosed, results>>
    /\ UNCHANGED <<sweepFrom, cur, outputTxNum, popped, offered>>

\* Drain: case txTask, ok := <-q.resultCh, with !ok: return nil
DrainClosed ==
    /\ ~panicked
    /\ lpc = "idle"
    /\ resultCh = <<>>
    /\ rchClosed
    /\ lpc' = "iter"
    /\ UNCHANGED <<qvars, evars, wvars, handed, toRetry, svars, pvars, rvars>>
    /\ UNCHANGED <<drained, sweepFrom, cur, outputTxNum, popped, offered>>

\* Drain: case <-ctx.Done(): return ctx.Err(); the commit loop ends
DrainCancelled ==
    /\ ~panicked
    /\ lpc = "idle"
    /\ ctxDone
    /\ lpc' = "stopped"
    /\ UNCHANGED <<qvars, evars, wvars, handed, toRetry, svars, pvars, rvars>>
    /\ UNCHANGED <<drained, sweepFrom, cur, outputTxNum, popped, offered>>

\* Drain returning nil on every tick, without the test of q.Len()
DrainTickAlways ==
    /\ ~panicked
    /\ lpc = "idle"
    /\ lpc' = "iter"
    /\ UNCHANGED <<qvars, evars, wvars, handed, toRetry, svars, pvars, rvars>>
    /\ UNCHANGED <<drained, sweepFrom, cur, outputTxNum, popped, offered>>

\* Drain: case <-q.ticker.C: if q.Len() > 0 { return nil }; return q.Drain(ctx)
\* (a tick can stay buffered in ticker.C after Close stopped the ticker)
DrainTick ==
    /\ ~panicked
    /\ lpc = "idle"
    /\ Len(results) > 0
    /\ lpc' = "iter"
    /\ UNCHANGED <<qvars, evars, wvars, handed, toRetry, svars, pvars, rvars>>
    /\ UNCHANGED <<drained, sweepFrom, cur, outputTxNum, popped, offered>>

\* DrainNonBlocking: drainNoBlock(ctx, nil): q.Lock(), nothing to push
DrainNonBlocking ==
    /\ ~panicked
    /\ lpc = "idle"
    /\ lpc' = "sweep"
    /\ UNCHANGED <<qvars, evars, wvars, handed, toRetry, svars, pvars, rvars>>
    /\ sweepFrom' = Len(results)
    /\ UNCHANGED <<drained, cur, outputTxNum, popped, offered>>

\* a drainNoBlock that looks at the context before it pushes
DrainLockCancelFirst ==
    /\ ~panicked
    /\ lpc = "lock"
    /\ results' = IF drained # NoResult /\ ~ctxDone
                  THEN HeapPush(results, drained) ELSE results
    /\ drained' = NoResult
    /\ lpc' = IF ctxDone THEN "stopped" ELSE "sweep"
    /\ UNCHANGED <<qvars, evars, wvars, handed, toRetry, svars, pvars>>
    /\ UNCHANGED <<limit, resultCap, resultCh, rchClosed, rclosed>>
    /\ sweepFrom' = Len(results')
    /\ UNCHANGED <<cur, outputTxNum, popped, offered>>

\* drainNoBlock(ctx, txTask): q.Lock(); heap.Push(q.results, task)
DrainLock ==
    /\ ~panicked
    /\ lpc = "lock"
    /\ results' = IF drained # NoResult THEN HeapPush(results, drained) ELSE results
    /\ drained' = NoResult
    /\ lpc' = "sweep"
    /\ UNCHANGED <<qvars, evars, wvars, handed, toRetry, svars, pvars>>
    /\ UNCHANGED <<limit, resultCap, resultCh, rchClosed, rclosed>>
    /\ sweepFrom' = Len(results')
    /\ UNCHANGED <<cur, outputTxNum, popped, offered>>

\* drainNoBlock's loop: case <-ctx.Done(): return ctx.Err()
SweepCancelled ==
    /\ ~panicked
    /\ lpc = "sweep"
    /\ ctxDone
    /\ lpc' = "stopped"
    /\ UNCHANGED <<qvars, evars, wvars, handed, toRetry, svars, pvars, rvars>>
    /\ UNCHANGED <<drained, sweepFrom, cur, outputTxNum, popped, offered>>

\* drainNoBlock's loop pulling on without the test of q.limit
SweepRecvNoLimit ==
    /\ ~panicked
    /\ lpc = "sweep"
    /\ resultCh # <<>>
    /\ resultCh' = Tail(resultCh)
    /\ results' = HeapPush(results, Head(resultCh))
    /\ lpc' = "sweep"
    /\ UNCHANGED <<qvars, evars, wvars, handed, toRetry, svars, pvars>>
    /\ UNCHANGED <<limit, resultCap, rchClosed, rclosed>>
    /\ UNCHANGED <<drained, sweepFrom, cur, outputTxNum, popped, offered>>

\* drainNoBlock's loop: case txTask, ok := <-q.resultCh with a result: push
\* it; return nil when the heap holds more than limit results
SweepRecv ==
    /\ ~panicked
    /\ lpc = "sweep"
    /\ resultCh # <<>>
    /\ resultCh' = Tail(resultCh)
    /\ results' = HeapPush(results, Head(resultCh))
    /\ lpc' = IF Len(results) + 1 > limit THEN "iter" ELSE "sweep"
    /\ UNCHANGED <<qvars, evars, wvars, handed, toRetry, svars, pvars>>
    /\ UNCHANGED <<limit, resultCap, rchClosed, rclosed>>
    /\ UNCHANGED <<drained, sweepFrom, cur, outputTxNum, popped, offered>>

\* drainNoBlock's loop: the channel is closed (!ok) or empty (default, taken
\* when no other case is ready): return nil
SweepEnd ==
    /\ ~panicked
    /\ lpc = "sweep"
    /\ resultCh = <<>>
    /\ rchClosed \/ ~ctxDone
    /\ lpc' = "iter"
    /\ UNCHANGED <<qvars, evars, wvars, handed, toRetry, svars, pvars, rvars>>
    /\ UNCHANGED <<drained, sweepFrom, cur, outputTxNum, popped, offered>>

\* ResultsQueue.Close: if q.closed { return }; the caller's position goes
\* idle -> set -> chan -> returned, and a call that finds q.closed set ends
\* at "again"
RCloseCheck ==
    /\ ~panicked
    /\ rcpc \in {"idle", "returned"}
    /\ rcpc' = IF rclosed THEN "again" ELSE "set"
    /\ UNCHANGED <<qvars, nextAdd, rpc, rtask, retried, cpc, cpcB, wvars, handed, toRetry, xq>>

\* q.closed = true
RCloseSet ==
    /\ ~panicked
    /\ rcpc = "set"
    /\ rclosed' = TRUE
    /\ rcpc' = "chan"
    /\ UNCHANGED <<qvars, nextAdd, rpc, rtask, retried, cpc, cpcB, wvars, handed, toRetry>>
    /\ UNCHANGED <<limit, resultCap, resultCh, rchClosed, results, lvars, svars, pvars>>

\* close(q.resultCh); q.ticker.Stop()
RCloseChan ==
    /\ ~panicked
    /\ rcpc = "chan"
    /\ rcpc' = "returned"
    /\ IF rchClosed
       THEN panicked' = TRUE /\ UNCHANGED rchClosed
       ELSE rchClosed' = TRUE /\ UNCHANGED panicked
    /\ UNCHANGED <<capacity, newTasks, chClosed, closed, retires, ctxDone>>
    /\ UNCHANGED <<nextAdd, rpc, rtask, retried, cpc, cpcB, wvars, handed, toRetry>>
    /\ UNCHANGED <<limit, resultCap, resultCh, rclosed, results, lvars, svars, pvars>>

\* ------------------------------------------------------------- commit loop
\* for rwsIt.Has(outputTxNum) { ... }: the loop pops only the expected TxNum
IterHas ==
    /\ ~panicked
    /\ lpc = "iter"
    /\ outputTxNum < MaxTx
    /\ lpc' = IF Has(results, outputTxNum) THEN "pop" ELSE "idle"
    /\ UNCHANGED <<qvars, evars, wvars, handed, toRetry, svars, pvars, rvars>>
    /\ UNCHANGED <<drained, sweepFrom, cur, outputTxNum, popped, offered>>

\* for rwsIt.HasNext() { ... }: a consumer that pops whatever is queued
IterHasNext ==
    /\ ~panicked
    /\ lpc = "iter"
    /\ lpc' = IF HasNext(results) THEN "pop" ELSE "idle"
    /\ UNCHANGED <<qvars, evars, wvars, handed, toRetry, svars, pvars, rvars>>
    /\ UNCHANGED <<drained, sweepFrom, cur, outputTxNum, popped, offered>>

\* PopNext: q.Lock(); heap.Pop(q.results); q.Unlock()
IterPop ==
    /\ ~panicked
    /\ lpc = "pop"
    /\ cur' = HeapPopValue(results)
    /\ results' = HeapPopRest(results)
    /\ popped' = Append(popped, HeapPopValue(results))
    /\ lpc' = "process"
    /\ UNCHANGED <<qvars, evars, wvars, handed, toRetry, svars, pvars>>
    /\ UNCHANGED <<limit, resultCap, resultCh, rchClosed, rclosed>>
    /\ UNCHANGED <<drained, sweepFrom, outputTxNum, offered>>

\* the popped result is valid: its writes are applied, outputTxNum++
Commit ==
    /\ ~panicked
    /\ lpc = "process"
    /\ cur.ok
    /\ outputTxNum' = outputTxNum + 1
    /\ cur' = NoResult
    /\ lpc' = "iter"
    /\ UNCHANGED <<qvars, evars, wvars, handed, toRetry, svars, pvars, rvars>>
    /\ UNCHANGED <<drained, sweepFrom, popped, offered>>

\* the popped result is an abort: the task is resubmitted through ReTry and
\* outputTxNum stays
Conflict ==
    /\ ~panicked
    /\ lpc = "process"
    /\ ~cur.ok
    /\ toRetry' = toRetry \cup {Task(cur.txNum, cur.inc + 1)}
    /\ cur' = NoResult
    /\ lpc' = "retry"
    /\ UNCHANGED <<qvars, evars, wvars, handed, svars, pvars, rvars>>
    /\ UNCHANGED <<drained, sweepFrom, outputTxNum, popped, offered>>

\* ReTry has returned: back to the loop
RetryDone ==
    /\ ~panicked
    /\ lpc = "retry"
    /\ toRetry = {}
    /\ rpc = "idle"
    /\ lpc' = "iter"
    /\ UNCHANGED <<qvars, evars, wvars, handed, toRetry, svars, pvars, rvars>>
    /\ UNCHANGED <<drained, sweepFrom, cur, outputTxNum, popped, offered>>

\* every TxNum is committed: the loop ends
LoopDone ==
    /\ ~panicked
    /\ lpc = "iter"
    /\ outputTxNum = MaxTx
    /\ lpc' = "done"
    /\ UNCHANGED <<qvars, evars, wvars, handed, toRetry, svars, pvars, rvars>>
    /\ UNCHANGED <<drained, sweepFrom, cur, outputTxNum, popped, offered>>

\* ------------------------------------------------------ execStatusManager
\* what the last call returned: an int (a bool as 0 or 1), a list, or a panic
Ret(op, v) == [op |-> op, ret |-> v, list |-> <<>>, err |-> ""]
RetList(op, l) == [op |-> op, ret |-> 0, list |-> l, err |-> ""]
RetPanic(op, e) == [op |-> op, ret |-> 0, list |-> <<>>, err |-> e]

\* sort.Search(len(l), func(i) { return l[i] >= v }) between i and j; indices
\* are Go's, from 0: l[h] is l[h + 1] here
RECURSIVE Search(_, _, _, _)
Search(l, v, i, j) ==
    IF i < j
    THEN LET h == (i + j) \div 2
         IN  IF ~(l[h + 1] >= v) THEN Search(l, v, h + 1, j) ELSE Search(l, v, i, h)
    ELSE i

SearchInts(l, v) == Search(l, v, 0, Len(l))

\* an insertInList that does not look for the element in the list
insertInListNoCheck(l, v) ==
    IF Len(l) = 0 \/ v > l[Len(l)]
    THEN Append(l, v)
    ELSE LET x == SearchInts(l, v)
         IN  SubSeq(l, 1, x) \o <<v>> \o SubSeq(l, x + 1, Len(l))

insertInList(l, v) ==
    IF Len(l) = 0 \/ v > l[Len(l)]
    THEN Append(l, v)
    ELSE LET x == SearchInts(l, v)
         IN  IF x < Len(l) /\ l[x + 1] = v
             THEN l
             ELSE SubSeq(l, 1, x) \o <<v>> \o SubSeq(l, x + 1, Len(l))

\* removeFromList(l, v, expect) panics: l[x] with x == len(l) is out of range,
\* and a missing element panics when it is expected
removeFromListErr(l, v, expect) ==
    LET x == SearchInts(l, v)
    IN  IF x >= Len(l) THEN "index out of range"
        ELSE IF l[x + 1] # v /\ expect THEN "should not happen - element expected in list"
        ELSE ""
\* removeFromList(l, v, expect) when it returns
removeFromList(l, v, expect) ==
    LET x == SearchInts(l, v)
    IN  IF l[x + 1] # v THEN l
        ELSE SubSeq(l, 1, x) \o SubSeq(l, x + 2, Len(l))

\* a hasNoGap that accepts every list
hasNoGapAny(l) == TRUE
hasNoGap(l) == l[1] + Len(l) = l[Len(l)] + 1

maxAllComplete ==
    IF Len(complete) = 0 \/ complete[1] # 0
    THEN -1
    ELSE IF complete[Len(complete)] = Len(complete) - 1
    THEN complete[Len(complete)]
    ELSE LET I == {i \in 0 .. (Len(complete) - 2) : hasNoGap(SubSeq(complete, 1, i + 1))}
         IN  IF I = {} THEN -1
             ELSE complete[(CHOOSE i \in I : \A k \in I : k <= i) + 1]

\* a checkInProgress that looks at the first element only
checkInProgressFirst(tx) == Len(inProgress) > 0 /\ inProgress[1] = tx
checkInProgress(tx) ==
    LET x == SearchInts(inProgress, tx)
    IN  x < Len(inProgress) /\ inProgress[x + 1] = tx

checkPending(tx) ==
    LET x == SearchInts(pending, tx)
    IN  x < Len(pending) /\ pending[x + 1] = tx

checkComplete(tx) ==
    LET x == SearchInts(complete, tx)
    IN  x < Len(complete) /\ complete[x + 1] = tx

isBlocked(tx) == Cardinality(blocker[tx]) > 0

\* for x := txFrom; x <= max; x++ { if !m.checkInProgress(x) { append } }
RECURSIVE revalidationFrom(_, _)
revalidationFrom(x, max) ==
    IF x <= max
    THEN (IF ~checkInProgress(x) THEN <<x>> ELSE <<>>) \o revalidationFrom(x + 1, max)
    ELSE <<>>

getRevalidationRange(txFrom) == revalidationFrom(txFrom, maxAllComplete)

\* everything but the status manager
nonStatus == <<qvars, evars, wvars, handed, toRetry, rvars, lvars, pvars>>
\* the queue state a panic leaves alone
noPanic == <<capacity, newTasks, chClosed, closed, retires, ctxDone>>
\* a status-manager call panics: nothing is assigned
smPanic(op, e) ==
    /\ panicked' = TRUE
    /\ smLast' = RetPanic(op, e)
    /\ UNCHANGED <<pending, inProgress, complete, dependency, blocker>>
    /\ UNCHANGED <<noPanic, evars, wvars, handed, toRetry, rvars, lvars, pvars>>

\* a takeNextPending that leaves the index in pending
TakeNextPendingKeep ==
    /\ ~panicked
    /\ IF Len(pending) = 0
       THEN /\ smLast' = Ret("takeNextPending", -1)
            /\ UNCHANGED <<pending, inProgress>>
       ELSE /\ UNCHANGED pending
            /\ inProgress' = insertInList(inProgress, pending[1])
            /\ smLast' = Ret("takeNextPending", pending[1])
    /\ UNCHANGED <<complete, dependency, blocker, nonStatus>>

TakeNextPending ==
    /\ ~panicked
    /\ IF Len(pending) = 0
       THEN /\ smLast' = Ret("takeNextPending", -1)
            /\ UNCHANGED <<pending, inProgress>>
       ELSE /\ pending' = Tail(pending)
            /\ inProgress' = insertInList(inProgress, pending[1])
            /\ smLast' = Ret("takeNextPending", pending[1])
    /\ UNCHANGED <<complete, dependency, blocker, nonStatus>>

MarkComplete(tx) ==
    /\ ~panicked
    /\ LET e == removeFromListErr(inProgress, tx, TRUE)
       IN  IF e # ""
           THEN smPanic("markComplete", e)
           ELSE /\ inProgress' = removeFromList(inProgress, tx, TRUE)
                /\ complete' = insertInList(complete, tx)
                /\ smLast' = Ret("markComplete", 0)
                /\ UNCHANGED <<pending, dependency, blocker, nonStatus>>

ClearInProgress(tx) ==
    /\ ~panicked
    /\ LET e == removeFromListErr(inProgress, tx, TRUE)
       IN  IF e # ""
           THEN smPanic("clearInProgress", e)
           ELSE /\ inProgress' = removeFromList(inProgress, tx, TRUE)
                /\ smLast' = Ret("clearInProgress", 0)
                /\ UNCHANGED <<pending, complete, dependency, blocker, nonStatus>>

PushPending(tx) ==
    /\ ~panicked
    /\ pending' = insertInList(pending, tx)
    /\ smLast' = Ret("pushPending", 0)
    /\ UNCHANGED <<inProgress, complete, dependency, blocker, nonStatus>>

\* addDependencies recording the edge in the dependency map only
AddDependenciesOneWay(b, d) ==
    /\ ~panicked
    /\ IF b < 0 \/ b >= d
       THEN /\ smLast' = Ret("addDependencies", 0)
            /\ UNCHANGED <<dependency, blocker>>
       ELSE IF checkComplete(b)
       THEN /\ blocker' = [blocker EXCEPT ![d] = @ \ {b}]
            /\ smLast' = Ret("addDependencies",
                             IF Cardinality(blocker[d] \ {b}) > 0 THEN 1 ELSE 0)
            /\ UNCHANGED dependency
       ELSE /\ dependency' = [dependency EXCEPT ![b] = @ \cup {d}]
            /\ UNCHANGED blocker
            /\ smLast' = Ret("addDependencies", 1)
    /\ UNCHANGED <<pending, inProgress, complete, nonStatus>>
AddDependencies(b, d) ==
    /\ ~panicked
    /\ IF b < 0 \/ b >= d
       THEN /\ smLast' = Ret("addDependencies", 0)
            /\ UNCHANGED <<dependency, blocker>>
       ELSE IF checkComplete(b)
       THEN \* delete(curblockers, blocker); return len(curblockers) > 0
            /\ blocker' = [blocker EXCEPT ![d] = @ \ {b}]
            /\ smLast' = Ret("addDependencies",
                             IF Cardinality(blocker[d] \ {b}) > 0 THEN 1 ELSE 0)
            /\ UNCHANGED dependency
       ELSE /\ dependency' = [dependency EXCEPT ![b] = @ \cup {d}]
            /\ blocker' = [blocker EXCEPT ![d] = @ \cup {b}]
            /\ smLast' = Ret("addDependencies", 1)
    /\ UNCHANGED <<pending, inProgress, complete, nonStatus>>

\* delete(m.blocker[k], tx)
withoutBlocker(bs, tx) == bs \ {tx}

\* removeDependency pushing every dependent that lost its last blocker,
\* whichever list it is in
releasedAny(tx) ==
    {k \in dependency[tx] : withoutBlocker(blocker[k], tx) = {}}
\* the dependents removeDependency(tx) pushes to pending: their last blocker
\* went and they are in none of the lists
released(tx) ==
    {k \in dependency[tx] :
        /\ withoutBlocker(blocker[k], tx) = {}
        /\ ~checkComplete(k) /\ ~checkPending(k) /\ ~checkInProgress(k)}

RECURSIVE insertAll(_, _)
insertAll(l, ks) ==
    IF ks = {} THEN l
    ELSE LET k == CHOOSE x \in ks : TRUE
         IN  insertAll(insertInList(l, k), ks \ {k})

RemoveDependency(tx) ==
    /\ ~panicked
    /\ blocker' = [k \in TxIdx |->
                     IF k \in dependency[tx]
                     THEN withoutBlocker(blocker[k], tx)
                     ELSE blocker[k]]
    /\ pending' = insertAll(pending, released(tx))
    /\ dependency' = [dependency EXCEPT ![tx] = {}]
    /\ smLast' = Ret("removeDependency", 0)
    /\ UNCHANGED <<inProgress, complete, nonStatus>>

MaxAllComplete ==
    /\ ~panicked
    /\ smLast' = Ret("maxAllComplete", maxAllComplete)
    /\ UNCHANGED <<pending, inProgress, complete, dependency, blocker, nonStatus>>

GetRevalidationRange(txFrom) ==
    /\ ~panicked
    /\ smLast' = RetList("getRevalidationRange", getRevalidationRange(txFrom))
    /\ UNCHANGED <<pending, inProgress, complete, dependency, blocker, nonStatus>>

\* a pushPendingSet that never calls clearComplete
pushPendingSetKeepComplete(set, c) == c

\* pushPendingSet's loop on the complete list: clearComplete(v) when
\* checkComplete(v)
RECURSIVE pushPendingSetComplete(_, _)
pushPendingSetComplete(set, c) ==
    IF set = <<>> THEN c
    ELSE LET v == Head(set)
             x == SearchInts(c, v)
         IN  pushPendingSetComplete(Tail(set),
                IF x < Len(c) /\ c[x + 1] = v THEN removeFromList(c, v, FALSE) ELSE c)

\* pushPendingSet's loop on the pending list: pushPending(v)
RECURSIVE pushPendingSetPending(_, _)
pushPendingSetPending(set, l) ==
    IF set = <<>> THEN l
    ELSE pushPendingSetPending(Tail(set), insertInList(l, Head(set)))

PushPendingSet(set) ==
    /\ ~panicked
    /\ complete' = pushPendingSetComplete(set, complete)
    /\ pending' = pushPendingSetPending(set, pending)
    /\ smLast' = Ret("pushPendingSet", 0)
    /\ UNCHANGED <<inProgress, dependency, blocker, nonStatus>>

\* ------------------------------------------------------------------- Init
\* NewQueueWithRetry(capacity): an open, empty channel and an empty heap;
\* the pool's workers share a Locker of kind lk
InitQueueLock(lk) ==
    /\ capacity \in 1 .. MaxCap
    /\ newTasks = <<>>
    /\ chClosed = FALSE
    /\ closed = FALSE
    /\ retires = <<>>
    /\ ctxDone = FALSE
    /\ panicked = FALSE
    /\ nextAdd = 0
    /\ rpc = "idle"
    /\ rtask = Nil
    /\ retried = {}
    /\ cpc = "idle"
    /\ cpcB = "idle"
    /\ rcpc = "idle"
    /\ pc = [w \in Workers |-> "idle"]
    /\ inTask = [w \in Workers |-> Nil]
    /\ task = [w \in Workers |-> Nil]
    /\ path = [w \in Workers |-> "none"]
    /\ seen = [w \in Workers |-> FALSE]
    /\ start = [w \in Workers |-> {}]
    /\ result = [w \in Workers |-> NoResult]
    /\ execLock = "free"
    /\ lockKind = lk
    /\ readers = {}
    /\ handed = {}
    /\ clearDone = FALSE
    /\ clpc = "idle"

\* the pool's Locker is a sync.Mutex
InitQueue == InitQueueLock("Mutex")

\* NewResultsQueue(resultChannelLimit, heapLimit), before any result
InitResults ==
    /\ limit \in {0, MaxLimit}
    /\ resultCap = ResultCap
    /\ resultCh = <<>>
    /\ rchClosed = FALSE
    /\ rclosed = FALSE
    /\ results = <<>>
    /\ lpc = "idle"
    /\ drained = NoResult
    /\ sweepFrom = 0
    /\ cur = NoResult
    /\ outputTxNum = 0
    /\ popped = <<>>
    /\ offered = {}

InitStatus ==
    /\ pending = [i \in 1 .. NumTasks |-> i - 1]
    /\ inProgress = <<>>
    /\ complete = <<>>
    /\ dependency = [i \in TxIdx |-> {}]
    /\ blocker = [i \in TxIdx |-> {}]
    /\ smLast = Ret("newStatusManager", 0)

\* ------------------------------------------- the dispatch queue on its own
\* Add is called with ascending TxNums; ReTry with any task, in any order
InitQ ==
    /\ InitQueue
    /\ InitResults
    /\ limit = MaxLimit
    /\ InitStatus
    /\ toRetry = {Task(n, 1) : n \in 0 .. (MaxRetry - 1)}

NextQ ==
    \/ AddSend
    \/ AddCancelled
    \/ AddOnClosed
    \/ \E t \in toRetry : ReTryPush(t)
    \/ ReTryCheckClosed
    \/ ReTrySignal
    \/ cpc = "idle" /\ CloseCheck
    \/ CloseSet
    \/ CloseChan
    \/ Cancel
    \/ \E w \in Workers : PopNoWaitLocked(w)
    \/ \E w \in Workers : PopNoWaitChan(w)
    \/ \E w \in Workers : PopWaitRecv(w)
    \/ \E w \in Workers : PopWaitCancelled(w)
    \/ \E w \in Workers : PopWaitLocked(w)
    \/ \E w \in Workers : PopWaitClosed(w)
    \/ \E w \in Workers : TaskDone(w)

SpecQ == InitQ /\ [][NextQ]_vars

\* ------------------------------------------- the ResultsQueue on its own
\* results of any TxNum and attempt arrive, through Add or Push, in any order
InitR ==
    /\ InitQueue
    /\ InitResults
    /\ InitStatus
    /\ toRetry = {}

NextR ==
    \/ \E r \in ResultUniverse : RAdd(r)
    \/ \E r \in ResultUniverse : RAddOnClosed(r)
    \/ \E r \in ResultUniverse : Push(r)
    \/ DrainRecv
    \/ DrainClosed
    \/ DrainCancelled
    \/ DrainTick
    \/ DrainNonBlocking
    \/ DrainLock
    \/ SweepCancelled
    \/ SweepRecv
    \/ SweepEnd
    \/ rcpc = "idle" /\ RCloseCheck
    \/ RCloseSet
    \/ RCloseChan
    \/ Cancel
    \/ IterHasNext
    \/ IterPop
    \/ Commit

SpecR == InitR /\ [][NextR]_vars

\* ------------------------------------------- Close called twice in a row
\* both queues are filled through Add, ReTry and Push, and each Close is
\* called, returns, and is called again by the same goroutine
NextClose ==
    \/ AddSend
    \/ \E t \in toRetry : ReTryPush(t)
    \/ ReTryCheckClosed
    \/ ReTrySignal
    \/ \E r \in ResultUniverse : RAdd(r)
    \/ \E r \in ResultUniverse : Push(r)
    \/ CloseCheck
    \/ CloseSet
    \/ CloseChan
    \/ RCloseCheck
    \/ RCloseSet
    \/ RCloseChan

SpecClose == InitQ /\ [][NextClose]_vars

\* C14: Close is idempotent on both queues: a second sequential call of
\* QueueWithRetry.Close or of ResultsQueue.Close can always take its step
\* (it does not block), does not panic, ends at its early return, and leaves
\* every field of the queue as the first call left it
C14_NotBlocked ==
    /\ (cpc = "returned" /\ ~panicked) => ENABLED CloseCheck
    /\ (rcpc = "returned" /\ ~panicked) => ENABLED RCloseCheck
C14_Step ==
    /\ (cpc = "returned" /\ cpc' # "returned") =>
          /\ cpc' = "again"
          /\ UNCHANGED <<capacity, newTasks, chClosed, closed, retires, panicked>>
    /\ (rcpc = "returned" /\ rcpc' # "returned") =>
          /\ rcpc' = "again"
          /\ UNCHANGED <<limit, resultCap, resultCh, rchClosed, rclosed, results, panicked>>
C14_CloseIdempotent == []C14_NotBlocked /\ [][C14_Step]_vars
C14_Witness ==
    /\ cpc = "again" /\ rcpc = "again" /\ ~panicked
    /\ chClosed /\ rchClosed
    /\ newTasks # <<>> /\ retires # <<>>
    /\ resultCh # <<>> /\ results # <<>>

\* ------------------------------- the dispatch queue under fair scheduling
\* one consumer calls Next again and again, also after a call that returned
\* ok = false; producers call Add, ReTry, Close and cancel the context
Consumer == "w1"

\* Next is called again after it returned (nil, false)
NextAgain(w) ==
    /\ ~panicked
    /\ pc[w] = "stopped"
    /\ pc' = [pc EXCEPT ![w] = "idle"]
    /\ UNCHANGED <<qvars, evars, inTask, task, path, seen, start, result>>
    /\ UNCHANGED <<execLock, lockKind, readers, handed, toRetry, xq>>

\* the steps of the consumer's Next call
NextCall(w) ==
    \/ PopNoWaitLocked(w)
    \/ PopNoWaitChan(w)
    \/ PopWaitRecv(w)
    \/ PopWaitCancelled(w)
    \/ PopWaitLocked(w)
    \/ PopWaitClosed(w)

NextF ==
    \/ AddSend
    \/ AddCancelled
    \/ AddOnClosed
    \/ \E t \in toRetry : ReTryPush(t)
    \/ ReTryCheckClosed
    \/ ReTrySignal
    \/ cpc = "idle" /\ CloseCheck
    \/ CloseSet
    \/ CloseChan
    \/ Cancel
    \/ NextCall(Consumer)
    \/ TaskDone(Consumer)
    \/ NextAgain(Consumer)

\* a goroutine that can take a step is scheduled: a started ReTry or Close
\* runs to its end, and the consumer's Next call goes on whenever one of its
\* select cases is ready or its lock is free
FairF ==
    /\ WF_vars(ReTryCheckClosed)
    /\ WF_vars(ReTrySignal)
    /\ WF_vars(CloseSet)
    /\ WF_vars(CloseChan)
    /\ WF_vars(NextCall(Consumer))
    /\ WF_vars(TaskDone(Consumer))
    /\ WF_vars(NextAgain(Consumer))

SpecF == InitQ /\ [][NextF]_vars /\ FairF

\* the tasks Add and ReTry are called with
TaskUniverse == {Task(n, 0) : n \in TxNums} \cup {Task(n, 1) : n \in 0 .. (MaxRetry - 1)}
\* the queue holds t: in the retry heap, in the fresh buffer, or taken from
\* the buffer by a Next call that has not pushed it onto the heap yet
held(t) ==
    \/ t \in Elems(retires)
    \/ t \in Elems(newTasks)
    \/ (pc[Consumer] = "wait_lk" /\ inTask[Consumer] = t)

\* C15: after QueueWithRetry.Close has returned no fresh task enters the
\* fresh buffer, a Next call on the closed queue can always go on (it does not
\* block), every task the queue holds, retries pushed after Close included,
\* is eventually returned by one of the successive Next calls, and a Next call
\* that finds both sources empty returns.
C15_NoFresh ==
    chClosed => \A t \in TaskUniverse : Count(newTasks', t) <= Count(newTasks, t)
C15_NotBlocked ==
    (chClosed /\ ~panicked /\ pc[Consumer] \in {"idle", "nowait_ch", "wait", "wait_lk", "wait_cl"})
        => ENABLED NextCall(Consumer)
C15_AfterClose ==
    /\ [][C15_NoFresh]_vars
    /\ []C15_NotBlocked
    /\ \A t \in TaskUniverse : (cpc = "returned" /\ held(t)) ~> (t \in handed)
    /\ (cpc = "returned" /\ pc[Consumer] = "idle" /\ retires = <<>> /\ newTasks = <<>>)
          ~> (pc[Consumer] \in {"stopped", "got"})

\* C16: ReTry never blocks and always succeeds: whatever Add, Next and Close
\* calls run beside it, a started ReTry(t) can always take its next step, no
\* step of it panics, and its push leaves t in the retry heap.
C16_NotBlocked ==
    (~panicked /\ rpc \in {"chk", "send"}) => ENABLED (ReTryCheckClosed \/ ReTrySignal)
C16_Step ==
    /\ (rpc # rpc') => ~panicked'
    /\ (rpc = "idle" /\ rpc' = "chk") => rtask' \in Elems(retires')
C16_ReTryAlwaysSucceeds == []C16_NotBlocked /\ [][C16_Step]_vars

\* C17: on a queue that is not closed, a Next call that found the retry heap
\* and the fresh buffer empty waits in popWait: it takes no step while the
\* buffer is empty and the context is not cancelled, it returns ok = false only
\* after cancellation and ok = true only with a task; and once a task is in
\* the heap or the buffer, or the context is cancelled, the waiting call
\* returns.
available == \E t \in TaskUniverse : t \in Elems(retires) \/ t \in Elems(newTasks)
C17_Waits ==
    /\ (pc[Consumer] = "wait" /\ newTasks = <<>> /\ ~chClosed /\ ~ctxDone)
          => ~ENABLED NextCall(Consumer)
    /\ (pc[Consumer] = "stopped" /\ ~closed) => ctxDone
    /\ (pc[Consumer] = "got") => task[Consumer] \in TaskUniverse
C17_BlockedNextReturns ==
    /\ []C17_Waits
    /\ (pc[Consumer] = "wait" /\ ~closed /\ (available \/ ctxDone))
          ~> (pc[Consumer] \in {"got", "stopped"} \/ closed)

\* ------------------------------ the ResultsQueue under fair scheduling
\* one consumer loops over Drain and the iterator; results arrive through Add
\* and Push; the queue may be closed and the context cancelled
DrainCall ==
    \/ DrainRecv
    \/ DrainClosed
    \/ DrainCancelled
    \/ DrainTick

SweepCall ==
    \/ DrainLock
    \/ SweepCancelled
    \/ SweepRecv
    \/ SweepEnd

InitD ==
    /\ InitR
    /\ limit = MaxLimit

NextD ==
    \/ \E r \in ResultUniverse : RAdd(r)
    \/ \E r \in ResultUniverse : Push(r)
    \/ DrainCall
    \/ SweepCall
    \/ rcpc = "idle" /\ RCloseCheck
    \/ RCloseSet
    \/ RCloseChan
    \/ Cancel
    \/ IterHasNext
    \/ IterPop
    \/ Commit

\* the consumer's goroutine is scheduled whenever a case of its select is
\* ready, and the ticker keeps sending on ticker.C until Close stops it; a
\* started Close runs to its end
FairD ==
    /\ WF_vars(DrainCall)
    /\ WF_vars(SweepCall)
    /\ WF_vars(RCloseSet)
    /\ WF_vars(RCloseChan)

SpecD == InitD /\ [][NextD]_vars /\ FairD

\* C21: a Drain call that waits while the heap holds a result returns: with
\* the buffer empty, the queue open and no cancellation it returns nil on a
\* tick and takes nothing from the buffer; and while the heap and the buffer
\* are both empty, the queue open and the context not cancelled, the Drain
\* call can take no step, whatever ticks arrive.
C21_TickStep ==
    (lpc = "idle" /\ lpc' # "idle" /\ resultCh = <<>> /\ ~rchClosed /\ ~ctxDone) =>
        /\ results # <<>>
        /\ lpc' = "iter"
        /\ UNCHANGED <<resultCh, results>>
C21_KeepsWaiting ==
    (lpc = "idle" /\ results = <<>> /\ resultCh = <<>> /\ ~rchClosed /\ ~ctxDone)
        => ~ENABLED DrainCall
C21_TickWakesDrain ==
    /\ [][C21_TickStep]_vars
    /\ []C21_KeepsWaiting
    /\ (lpc = "idle" /\ results # <<>>) ~> (lpc # "idle")
C21_Witness ==
    /\ lpc = "iter" /\ results # <<>> /\ resultCh = <<>> /\ offered # {}
    /\ popped = <<>> /\ sweepFrom = 0 /\ ~rchClosed /\ ~rclosed /\ ~ctxDone /\ ~panicked

\* ----------------------------------------- the status manager on its own
\* the calls the scheduler makes, in any order and with any index
InitSM ==
    /\ InitQueue
    /\ InitResults
    /\ limit = MaxLimit
    /\ InitStatus
    /\ toRetry = {}

NextSM ==
    \/ TakeNextPending
    \/ \E tx \in TxIdx : MarkComplete(tx)
    \/ \E tx \in TxIdx : ClearInProgress(tx)
    \/ \E tx \in TxIdx : PushPending(tx)
    \/ \E b \in {-1} \cup TxIdx, d \in TxIdx : AddDependencies(b, d)
    \/ \E tx \in TxIdx : RemoveDependency(tx)
    \/ MaxAllComplete
    \/ \E txFrom \in TxIdx : GetRevalidationRange(txFrom)
    \/ \E txFrom \in TxIdx : PushPendingSet(getRevalidationRange(txFrom))

SpecSM == InitSM /\ [][NextSM]_vars

\* ------------------------------ the status manager under the scheduler
\* the calls of the scheduler: a task is taken, completed or cleared, edges
\* are added and removed, and a revalidation range is pushed back to pending
NextSched ==
    \/ TakeNextPending
    \/ \E tx \in TxIdx : MarkComplete(tx)
    \/ \E tx \in TxIdx : ClearInProgress(tx)
    \/ \E b \in {-1} \cup TxIdx, d \in TxIdx : AddDependencies(b, d)
    \/ \E tx \in TxIdx : RemoveDependency(tx)
    \/ \E txFrom \in TxIdx : PushPendingSet(getRevalidationRange(txFrom))

SpecSched == InitSM /\ [][NextSched]_vars

\* ------------------------- maxAllComplete and getRevalidationRange alone
\* the elements of S in ascending order
RECURSIVE Ascending(_)
Ascending(S) ==
    IF S = {} THEN <<>>
    ELSE LET m == CHOOSE x \in S : \A y \in S : x <= y
         IN  <<m>> \o Ascending(S \ {m})

\* the lists after newStatusManager(MaxIdx + 1) and calls of takeNextPending,
\* markComplete, clearInProgress and pushPending that leave the indices of P
\* in progress and those of C complete (an index pushed to pending after it
\* completed and taken again is in both)
InitLists ==
    /\ InitQueue
    /\ InitResults
    /\ limit = MaxLimit
    /\ toRetry = {}
    /\ dependency = [i \in TxIdx |-> {}]
    /\ blocker = [i \in TxIdx |-> {}]
    /\ smLast = Ret("takeNextPending", -1)
    /\ \E P \in SUBSET (0 .. MaxIdx) : \E C \in SUBSET (0 .. MaxIdx) :
          /\ pending = Ascending((0 .. MaxIdx) \ (P \cup C))
          /\ inProgress = Ascending(P)
          /\ complete = Ascending(C)

NextLists ==
    \/ MaxAllComplete
    \/ \E txFrom \in 0 .. MaxIdx : GetRevalidationRange(txFrom)

SpecLists == InitLists /\ [][NextLists]_vars

\* ------------------------------------------------------------ the pipeline
\* producer -> QueueWithRetry -> workers -> ResultsQueue -> commit loop, which
\* resubmits aborted tasks through ReTry and closes the queues at the end
Init ==
    /\ InitQueue
    /\ InitResults
    /\ InitStatus
    /\ toRetry = {}

Next ==
    \/ AddSend
    \/ AddCancelled
    \/ \E w \in Workers : PopNoWaitLocked(w)
    \/ \E w \in Workers : PopNoWaitChan(w)
    \/ \E w \in Workers : PopWaitRecv(w)
    \/ \E w \in Workers : PopWaitCancelled(w)
    \/ \E w \in Workers : PopWaitLocked(w)
    \/ \E w \in Workers : PopWaitClosed(w)
    \/ \E w \in Workers : ExecBegin(w)
    \/ \E w \in Workers : ExecEnd(w)
    \/ \E w \in Workers : ResultAdd(w)
    \/ \E w \in Workers : ResultAddCancelled(w)
    \/ DrainRecv
    \/ DrainCancelled
    \/ DrainTick
    \/ DrainNonBlocking
    \/ DrainLock
    \/ SweepCancelled
    \/ SweepRecv
    \/ SweepEnd
    \/ IterHas
    \/ IterPop
    \/ Commit
    \/ Conflict
    \/ \E t \in toRetry : ReTryPush(t)
    \/ ReTryCheckClosed
    \/ ReTrySignal
    \/ RetryDone
    \/ LoopDone
    \/ lpc = "done" /\ cpc = "idle" /\ CloseCheck
    \/ CloseSet
    \/ CloseChan
    \/ lpc = "done" /\ rcpc = "idle" /\ RCloseCheck
    \/ RCloseSet
    \/ RCloseChan
    \/ Cancel

Spec == Init /\ [][Next]_vars

\* ------------------------------------------ the pipeline, fairly scheduled
\* the steps of Worker.Run
RunStep(w) ==
    \/ NextCall(w)
    \/ ExecBegin(w)
    \/ ExecEnd(w)
    \/ ResultAdd(w)
    \/ ResultAddCancelled(w)

\* the steps of the commit loop, the ReTry and the Close calls it makes
LoopStep ==
    \/ DrainCall
    \/ SweepCall
    \/ IterHas
    \/ IterPop
    \/ Commit
    \/ Conflict
    \/ \E t \in toRetry : ReTryPush(t)
    \/ ReTryCheckClosed
    \/ ReTrySignal
    \/ RetryDone
    \/ LoopDone
    \/ lpc = "done" /\ cpc = "idle" /\ CloseCheck
    \/ CloseSet
    \/ CloseChan
    \/ lpc = "done" /\ rcpc = "idle" /\ RCloseCheck
    \/ RCloseSet
    \/ RCloseChan

\* every goroutine that can take a step is scheduled, the producer, which
\* adds every task, included; a tick is ready only
\* once in a ticker period and select picks at random among its ready cases,
\* so a Drain that is called again and again with a result in the buffer
\* takes the receive case in the end
FairP ==
    /\ \A w \in Workers : WF_vars(RunStep(w))
    /\ WF_vars(LoopStep)
    /\ SF_vars(DrainRecv)
    /\ WF_vars(AddSend \/ AddCancelled)

SpecP == Init /\ [][Next]_vars /\ FairP

\* C23: without cancellation a worker's Run returns only when the dispatch
\* queue is closed and its retry heap and fresh buffer are empty; and once the
\* queue is closed and both are empty, every worker's Run returns, with nil
\* unless the context was cancelled while it was in ResultsQueue.Add.
C23_ReturnStep(w) ==
    (pc[w] \notin {"stopped", "failed"} /\ pc'[w] \in {"stopped", "failed"} /\ ~ctxDone) =>
        /\ pc'[w] = "stopped"
        /\ chClosed /\ closed
        /\ retires' = <<>> /\ newTasks' = <<>>
C23_RunReturns ==
    /\ [][\A w \in Workers : C23_ReturnStep(w)]_vars
    /\ (chClosed /\ retires = <<>> /\ newTasks = <<>>)
          ~> (\A w \in Workers : pc[w] = "stopped" \/ (pc[w] = "failed" /\ ctxDone))
C23_Witness ==
    /\ \A w \in Workers : pc[w] = "stopped"
    /\ ~ctxDone /\ ~panicked /\ chClosed /\ lpc = "done"
    /\ \E r \in offered : r.inc = 1

\* the TxNums of the results the commit loop popped and found valid
Committed == {popped[j].txNum : j \in {i \in DOMAIN popped : popped[i].ok}}

\* C1: in the pipeline (tasks added in ascending TxNum order, workers
\* finishing in any order, a commit loop that pops only when Has(outputTxNum)
\* holds and increments outputTxNum after each valid result) every popped
\* result carries the TxNum that follows the results committed before it, so
\* the committed results are strictly ascending without gap or repeat, and
\* the committed TxNums are a gapless prefix in every reachable state, also
\* after cancellation.
C1_CommitOrder ==
    /\ \A i \in DOMAIN popped :
          popped[i].txNum = Cardinality({j \in 1 .. (i - 1) : popped[j].ok})
    /\ Committed = 0 .. (Cardinality(Committed) - 1)

\* C1 witness: the commit loop popped one valid result per task and every
\* TxNum is committed
C1_Witness ==
    /\ outputTxNum = MaxTx
    /\ Len(popped) = MaxTx
    /\ \A i \in DOMAIN popped : popped[i].ok

\* the task w's Next call returned is one the call itself took from the
\* fresh-task channel
FromChannel(w) ==
    /\ pc[w] = "got"
    /\ task[w].inc = 0
    /\ path[w] = "chan" \/ (path[w] = "wait" /\ task[w] = inTask[w])

C3_BlockedNextReturnsRetried ==
    \A w \in Workers :
        (pc[w] = "got" /\ path[w] = "wait" /\ inTask[w] # Nil /\ seen[w])
            => task[w].inc >= 1

\* C4: a Next call that finds the retry heap non-empty returns (ok = true) a
\* task of the smallest TxNum in the heap, removes exactly that task from the
\* heap and leaves the fresh-task channel as it is.
C4_Step(w) ==
    (pc[w] = "idle" /\ pc'[w] # "idle" /\ Len(retires) > 0) =>
        /\ pc'[w] = "got"
        /\ task'[w].txNum = MinTxNum(retires)
        /\ \A x \in Elems(retires) :
               Count(retires', x) = Count(retires, x) - (IF x = task'[w] THEN 1 ELSE 0)
        /\ Len(retires') = Len(retires) - 1
        /\ newTasks' = newTasks

C4_NextPopsRetryMin == [][\A w \in Workers : C4_Step(w)]_vars

\* C4 witness: Next has returned a task popped from a heap of tasks with
\* different TxNums while the fresh-task channel holds a task
C4_Witness ==
    \E w \in Workers :
        /\ pc[w] = "got"
        /\ path[w] = "heap"
        /\ \E i \in DOMAIN retires : retires[i].txNum > task[w].txNum
        /\ \E i \in DOMAIN newTasks : newTasks[i] # Nil

\* C5: in every reachable state of the ResultsQueue the heap holds at most
\* one result per TxNum.
C5_OneResultPerTxNum ==
    \A i, j \in DOMAIN results :
       i # j => results[i].txNum # results[j].txNum

\* C6: Has(txNum) is true exactly when the heap is non-empty and the smallest
\* queued TxNum is txNum, and PopNext on a non-empty heap returns a result of
\* that smallest TxNum and removes exactly that result, whatever the order in
\* which the results came in.
C6_HasIsMin ==
    \A n \in TxNums :
       Has(results, n) <=> (Len(results) > 0 /\ MinTxNum(results) = n)

C6_PopStep ==
    (lpc = "pop" /\ lpc' = "process") =>
       /\ cur'.txNum = MinTxNum(results)
       /\ Count(results, cur') >= 1
       /\ Len(results') = Len(results) - 1
       /\ \A r \in Elems(results) :
             Count(results', r) = Count(results, r) - (IF r = cur' THEN 1 ELSE 0)

C6_HasAndPopNextAreMin == []C6_HasIsMin /\ [][C6_PopStep]_vars

\* C6 witness: PopNext has returned the smallest TxNum out of a heap that got
\* a larger TxNum first and still holds it
C6_Witness ==
    /\ lpc = "process"
    /\ Len(results) > 0
    /\ cur.txNum < MinTxNum(results)
    /\ \E r \in Elems(results) : r.txNum > cur.txNum /\ r.inc = 0

\* the largest k with 0..k all in complete, -1 when 0 is not in complete
LargestCompletePrefix ==
    LET C == Elems(complete)
        K == {k \in C : \A i \in 0 .. k : i \in C}
    IN  IF K = {} THEN -1 ELSE CHOOSE k \in K : \A j \in K : j <= k

\* C8: for every sorted duplicate-free complete list maxAllComplete() is the
\* largest k such that every index 0..k is in complete, and -1 when index 0 is
\* not in complete (the empty list included).
C8_MaxAllComplete == maxAllComplete = LargestCompletePrefix

\* C8 witness: maxAllComplete() was called on a complete list that starts at
\* 0 and has a gap, with more complete indices above the gap than below it
C8_Witness ==
    /\ smLast.op = "maxAllComplete"
    /\ smLast.ret >= 1
    /\ Len(complete) > 2 * (smLast.ret + 1)

\* C9: getRevalidationRange(txFrom) returns, ascending, exactly the indices x
\* with txFrom <= x <= maxAllComplete() that are not in inProgress (nothing
\* when txFrom > maxAllComplete()), and the call changes none of the lists.
C9_Range ==
    \A txFrom \in 0 .. MaxIdx :
       getRevalidationRange(txFrom) =
          Ascending({x \in txFrom .. LargestCompletePrefix : x \notin Elems(inProgress)})

C9_Frame ==
    (smLast'.op = "getRevalidationRange" /\ smLast' # smLast) =>
       UNCHANGED <<pending, inProgress, complete, dependency, blocker>>

C9_RevalidationRange == []C9_Range /\ [][C9_Frame]_vars

\* C9 witness: getRevalidationRange returned a range that starts above 0 and
\* skips an in-progress index lying between two returned ones
C9_Witness ==
    /\ smLast.op = "getRevalidationRange"
    /\ Len(smLast.list) >= 2
    /\ smLast.list[1] > 0
    /\ \E x \in Elems(inProgress) :
          smLast.list[1] < x /\ x < smLast.list[Len(smLast.list)]

\* C7: for a dependent d whose blockers were recorded through
\* addDependencies, isBlocked(d) stays true until removeDependency has been
\* called for every one of them: it turns false only in the removeDependency
\* call for the last blocker left, and after that call d is in pending unless
\* it is in progress or complete.
C7_Step(d) ==
    /\ (isBlocked(d) /\ ~isBlocked(d)') =>
          \E tx \in TxIdx : RemoveDependency(tx) /\ blocker[d] = {tx}
    /\ \A tx \in blocker[d] :
          RemoveDependency(tx) =>
             IF blocker[d] = {tx}
             THEN /\ ~isBlocked(d)'
                  /\ checkPending(d)' \/ checkInProgress(d)' \/ checkComplete(d)'
             ELSE isBlocked(d)'

C7_BlockedUntilAllRemoved == [][\A d \in TxIdx : C7_Step(d)]_vars

\* C10: addDependencies(blocker, dependent) with blocker >= dependent or with
\* blocker in complete changes neither the dependency map nor the blocker map.
C10_Step(b, d) ==
    (AddDependencies(b, d) /\ (b >= d \/ checkComplete(b))) =>
       UNCHANGED <<dependency, blocker>>

C10_AddDependenciesNoOp ==
    [][\A b \in {-1} \cup TxIdx : \A d \in TxIdx : C10_Step(b, d)]_vars

\* C11: addDependencies(blocker, dependent) with 0 <= blocker < dependent and
\* blocker not complete records the edge in both maps and returns true; for
\* every call with 0 <= blocker < dependent the returned boolean is
\* isBlocked(dependent) as evaluated after the call.
C11_Step(b, d) ==
    (AddDependencies(b, d) /\ 0 <= b /\ b < d) =>
       /\ (smLast'.ret = 1) <=> isBlocked(d)'
       /\ ~checkComplete(b) =>
             /\ d \in dependency'[b]
             /\ b \in blocker'[d]
             /\ smLast'.ret = 1

C11_AddDependenciesRecords ==
    [][\A b \in TxIdx : \A d \in TxIdx : C11_Step(b, d)]_vars

\* C11 witness: addDependencies returned true and its dependent now has two
\* recorded blockers, each listing it as a dependent
C11_Witness ==
    /\ smLast.op = "addDependencies"
    /\ smLast.ret = 1
    /\ \E d \in TxIdx :
          /\ Cardinality(blocker[d]) = 2
          /\ \A b \in blocker[d] : d \in dependency[b]

\* how many of the lists pending, inProgress and complete hold index tx
listsHolding(tx) ==
    (IF checkPending(tx) THEN 1 ELSE 0) + (IF checkInProgress(tx) THEN 1 ELSE 0)
       + (IF checkComplete(tx) THEN 1 ELSE 0)

C13_Step ==
    (TakeNextPending /\ Len(pending) > 0) => ~isBlocked(pending[1])

C13_NeverTakesBlocked == [][C13_Step]_vars

\* C18: once the context is cancelled every blocking call returns not-ok at
\* once: a Next call made then does not return a task and a Next call waiting
\* in popWait leaves it only with ok = false; a worker's ResultsQueue.Add
\* returns the context error and enqueues nothing; Drain returns the context
\* error and neither receives a result nor returns nil.
C18_NextStep(w) ==
    /\ (pc[w] = "idle") => pc'[w] # "got"
    /\ (pc[w] = "wait" /\ pc'[w] # "wait") => pc'[w] = "stopped"
C18_AddStep(w) ==
    (pc[w] = "add" /\ pc'[w] # "add") => (pc'[w] = "failed" /\ resultCh' = resultCh)
C18_DrainStep ==
    (lpc = "idle") => lpc' \notin {"lock", "iter"}
C18_Step ==
    ctxDone =>
        /\ \A w \in Workers : C18_NextStep(w)
        /\ \A w \in Workers : C18_AddStep(w)
        /\ C18_DrainStep
C18_CancelledCallsFail == [][C18_Step]_vars

\* C19: QueueWithRetry.Add takes no step while the fresh buffer is full and
\* the context is not cancelled, and an Add call made when the context is
\* already cancelled returns with the fresh buffer as it was: the task is not
\* enqueued.
C19_Step ==
    /\ (Len(newTasks) >= capacity /\ ~ctxDone /\ ~chClosed) => nextAdd' = nextAdd
    /\ (ctxDone /\ nextAdd' # nextAdd) => newTasks' = newTasks
C19_AddCancelledEnqueuesNothing == [][C19_Step]_vars

Max(a, b) == IF a >= b THEN a ELSE b

\* C20 as stated: on an open, uncancelled ResultsQueue Drain returns nil only
\* after it took a result from the input buffer: it never returns straight
\* from its select without a receive.
C20_DrainTakesOne ==
    (lpc = "idle" /\ lpc' = "iter") => (rchClosed \/ ctxDone)
C20_SweepNotBlocked ==
    (lpc = "sweep" /\ ~panicked /\ ~ctxDone) => ENABLED (SweepRecv \/ SweepEnd)
C20_SweepStep ==
    /\ (lpc = "sweep" /\ lpc' = "sweep" /\ results' # results) => Len(results') <= limit
    /\ (lpc = "sweep") => Len(results') <= Max(sweepFrom + 1, limit + 1)
C20_DrainOriginal ==
    /\ [][C20_DrainTakesOne]_vars
    /\ []C20_SweepNotBlocked
    /\ [][C20_SweepStep]_vars

\* C20, amended: on an open, uncancelled ResultsQueue Drain returns nil after
\* it took a result from the input buffer into the heap, or straight from its
\* select on a tick that finds the heap non-empty, and then it changes nothing;
\* the sweep (of Drain and of DrainNonBlocking) can always take a step on an
\* empty buffer, goes on pulling only while the heap holds at most limit
\* results, and a sweep that began with h results in the heap leaves at most
\* max(h + 1, limit + 1).
C20_DrainTickOrOne ==
    (lpc = "idle" /\ lpc' = "iter" /\ ~rchClosed /\ ~ctxDone) =>
        /\ Len(results) > 0
        /\ UNCHANGED <<resultCh, results>>
C20_DrainAndSweep ==
    /\ [][C20_DrainTickOrOne]_vars
    /\ []C20_SweepNotBlocked
    /\ [][C20_SweepStep]_vars
C20_Witness ==
    /\ lpc = "iter" /\ ~rchClosed /\ ~ctxDone /\ ~panicked
    /\ resultCh # <<>>
    /\ sweepFrom > limit
    /\ Len(results) = sweepFrom + 1

\* the results pushed to the ResultsQueue for task t
resultsOf(t) == {r \in offered : r.txNum = t.txNum /\ r.inc = t.inc}
\* a worker has t from Next and has not pushed its Result yet
working(t) == \E w \in Workers : pc[w] \in {"got", "exec", "add"} /\ task[w] = t
\* a worker's Run returned the context error of ResultsQueue.Add for t
dropped(t) == \E w \in Workers : pc[w] = "failed" /\ task[w] = t

\* the steps of Run: the Result pushed is the one of the worker's task, an
\* execution that aborts or fails leads to Add like one that succeeds, and Run
\* returns an error only from a cancelled Add
C22_RunStep(w) ==
    /\ (pc[w] = "add" /\ pc'[w] = "idle") =>
          /\ resultCh' = Append(resultCh, result[w])
          /\ result[w].txNum = task[w].txNum /\ result[w].inc = task[w].inc
    /\ (pc[w] = "exec" /\ pc'[w] # "exec") => pc'[w] = "add"
    /\ (pc[w] # "failed" /\ pc'[w] = "failed") => (pc[w] = "add" /\ ctxDone)
C22_OnlyRunPushes ==
    (Len(resultCh') > Len(resultCh)) => \E w \in Workers : pc[w] = "add" /\ pc'[w] = "idle"

\* C22 as stated: every task a worker obtained from Next is with the worker
\* or has exactly one Result pushed.
C22_OneResultAlways ==
    \A t \in handed : (working(t) /\ resultsOf(t) = {}) \/ (~working(t) /\ Cardinality(resultsOf(t)) = 1)
C22_OneResultOrCancelled ==
    \A t \in handed :
        \/ working(t) /\ ~dropped(t) /\ resultsOf(t) = {}
        \/ ~working(t) /\ ~dropped(t) /\ Cardinality(resultsOf(t)) = 1
        \/ ~working(t) /\ dropped(t) /\ resultsOf(t) = {} /\ ctxDone
committedSeq == SelectSeq(popped, LAMBDA r : r.ok)
\* the aborts the commit loop recorded for TxNum n
abortsOf(n) == {i \in DOMAIN popped : ~popped[i].ok /\ popped[i].txNum = n}

\* the task of TxNum n was resubmitted and executed again: the Result of
\* its second attempt was pushed
executedAgain(n) == \E r \in offered : r.txNum = n /\ r.inc = 1
AllCommitted == Len(committedSeq) = MaxTx /\ outputTxNum = MaxTx

\* C24: conflict scenario: the committed results are TxNum 0, 1, 2, ... each
\* once and in ascending order, at most one abort is recorded per task and
\* exactly one for a task committed on its second attempt; and once every
\* task whose abort was recorded has been executed again, the commit loop
\* goes on to commit every TxNum 0..N-1 (unless the context is cancelled or a
\* further abort is recorded).
C24_Order ==
    /\ \A i \in DOMAIN committedSeq : committedSeq[i].txNum = i - 1
    /\ \A n \in TxNums : Cardinality(abortsOf(n)) <= 1
    /\ \A i \in DOMAIN committedSeq :
          committedSeq[i].inc = 1 => Cardinality(abortsOf(committedSeq[i].txNum)) = 1
C24_Retried ==
    /\ \E n \in TxNums : abortsOf(n) # {}
    /\ \A n \in TxNums : abortsOf(n) # {} => executedAgain(n)
C24_ConflictScenario ==
    /\ []C24_Order
    /\ C24_Retried ~> (ctxDone \/ AllCommitted \/ ~C24_Retried)
C24_Witness ==
    /\ AllCommitted /\ ~ctxDone /\ ~panicked
    /\ \E i \in DOMAIN committedSeq : committedSeq[i].inc = 1

\* ------------------------------------------------------------ the lengths
\* NewTasksLen: len(q.newTasks)
NewTasksLen == Len(newTasks)
\* RetriesLen: retiresLock.Lock(); l = q.retires.Len(); retiresLock.Unlock()
RetriesLen == Len(retires)
\* QueueWithRetry.Len: q.RetriesLen() + len(q.newTasks)
QueueWithRetryLen == RetriesLen + NewTasksLen
\* ResultChLen: len(q.resultCh)
ResultChLen == Len(resultCh)
\* ResultsQueue.Len: q.Lock(); l = q.results.Len(); q.Unlock()
ResultsQueueLen == Len(results)

\* every task was added, executed successfully at its first attempt and its
\* result popped by the commit loop; nothing was resubmitted
C25_NoConflictDone ==
    /\ nextAdd = MaxTx
    /\ Len(popped) = MaxTx
    /\ \A i \in DOMAIN popped : popped[i].ok /\ popped[i].inc = 0
    /\ retried = {}
    /\ toRetry = {}
C25_Lens ==
    C25_NoConflictDone =>
        /\ QueueWithRetryLen = 0
        /\ ResultsQueueLen = 0
        /\ ResultChLen = 0
        /\ ~panicked
C25_CloseStep ==
    (C25_NoConflictDone /\ (cpc' # cpc \/ rcpc' # rcpc)) =>
        /\ ~panicked'
        /\ cpc' # "again"
        /\ rcpc' # "again"

\* C25: no-conflict scenario: once the N tasks were added in ascending TxNum
\* order, all executed successfully and all N results popped by the commit
\* loop, QueueWithRetry.Len() is 0, ResultsQueue.Len() and ResultChLen() are
\* 0, and every step of Close on either queue is the normal one: no panic,
\* and the call is the one that closes the channel.
C25_NoConflictScenario == []C25_Lens /\ [][C25_CloseStep]_vars
C25_Witness ==
    /\ C25_NoConflictDone
    /\ QueueWithRetryLen = 0 /\ ResultsQueueLen = 0 /\ ResultChLen = 0
    /\ cpc = "returned" /\ chClosed
    /\ rcpc = "returned" /\ rchClosed
    /\ ~panicked /\ ~ctxDone

\* ------------------------------ every operation of the status manager
\* clearPending: m.pending = removeFromList(m.pending, tx, false)
ClearPending(tx) ==
    /\ ~panicked
    /\ LET e == removeFromListErr(pending, tx, FALSE)
       IN  IF e # ""
           THEN smPanic("clearPending", e)
           ELSE /\ pending' = removeFromList(pending, tx, FALSE)
                /\ smLast' = Ret("clearPending", 0)
                /\ UNCHANGED <<inProgress, complete, dependency, blocker, nonStatus>>

\* clearComplete: m.complete = removeFromList(m.complete, tx, false)
ClearComplete(tx) ==
    /\ ~panicked
    /\ LET e == removeFromListErr(complete, tx, FALSE)
       IN  IF e # ""
           THEN smPanic("clearComplete", e)
           ELSE /\ complete' = removeFromList(complete, tx, FALSE)
                /\ smLast' = Ret("clearComplete", 0)
                /\ UNCHANGED <<pending, inProgress, dependency, blocker, nonStatus>>

NextOps ==
    \/ TakeNextPending
    \/ \E tx \in TxIdx : MarkComplete(tx)
    \/ \E tx \in TxIdx : ClearInProgress(tx)
    \/ \E tx \in TxIdx : PushPending(tx)
    \/ \E tx \in TxIdx : ClearPending(tx)
    \/ \E tx \in TxIdx : ClearComplete(tx)
    \/ \E tx \in TxIdx : RemoveDependency(tx)
    \/ \E b \in TxIdx, d \in TxIdx : AddDependencies(b, d)
    \/ \E txFrom \in TxIdx : PushPendingSet(getRevalidationRange(txFrom))

SpecOps == InitSM /\ [][NextOps]_vars

\* l is sorted with no duplicate
strictlyAscending(l) == \A i \in 1 .. (Len(l) - 1) : l[i] < l[i + 1]
C26_Ascending ==
    /\ strictlyAscending(pending)
    /\ strictlyAscending(inProgress)
    /\ strictlyAscending(complete)
C26_InsertPresent ==
    \A v \in TxIdx :
        /\ v \in Elems(pending) => insertInList(pending, v) = pending
        /\ v \in Elems(inProgress) => insertInList(inProgress, v) = inProgress
        /\ v \in Elems(complete) => insertInList(complete, v) = complete
\* a pushPending that returns with the list as long as before changed nothing
C26_PushStep ==
    (smLast'.op = "pushPending" /\ smLast'.err = "" /\ Len(pending') = Len(pending)) =>
        pending' = pending

\* C26: after any sequence of status-manager operations each of pending,
\* inProgress and complete is strictly ascending (sorted, no duplicate), and
\* insertInList of an element a list already holds returns the list
\* unchanged.
C26_ListsStrictlyAscending ==
    /\ [](C26_Ascending /\ C26_InsertPresent)
    /\ [][C26_PushStep]_vars
\* pushPending has put an index back between two others, one index is in
\* progress and one complete
C26_Witness ==
    /\ smLast.op = "pushPending"
    /\ Len(pending) >= 2
    /\ \E i \in 1 .. (Len(pending) - 1) : pending[i] + 1 < pending[i + 1]
    /\ Len(inProgress) >= 1
    /\ Len(complete) >= 1
    /\ ~panicked

\* ---------------------------------------------------- the pool's clear()
\* clear: if clearDone { return }; clearDone = true
ClearCall ==
    /\ ~panicked
    /\ clpc \in {"idle", "returned", "again"}
    /\ IF clearDone
       THEN clpc' = "again" /\ UNCHANGED clearDone
       ELSE clpc' = "cancel" /\ clearDone' = TRUE
    /\ UNCHANGED <<qvars, evars, wvars, handed, toRetry, rvars, lvars, svars>>

\* clear: cancel(), which cancels the context every worker of the pool runs
\* with
ClearCancel ==
    /\ ~panicked
    /\ clpc = "cancel"
    /\ ctxDone' = TRUE
    /\ clpc' = "wait"
    /\ UNCHANGED <<capacity, newTasks, chClosed, closed, retires, panicked>>
    /\ UNCHANGED <<evars, wvars, handed, toRetry, rvars, lvars, svars, clearDone>>

\* a clear that does not wait for the workers
ClearWaitNone ==
    /\ ~panicked
    /\ clpc = "wait"
    /\ clpc' = "returned"
    /\ UNCHANGED <<qvars, evars, wvars, handed, toRetry, rvars, lvars, svars, clearDone>>

\* clear: g.Wait() returns when the Run of every worker has returned; then
\* ResetTx(nil) on each worker and clear returns
ClearWait ==
    /\ ~panicked
    /\ clpc = "wait"
    /\ \A w \in Workers : pc[w] \in {"stopped", "failed"}
    /\ clpc' = "returned"
    /\ UNCHANGED <<qvars, evars, wvars, handed, toRetry, rvars, lvars, svars, clearDone>>

\* the pool when clear is called: the commit loop has stopped and no longer
\* drains the results; the producer may still add the fresh tasks, a pending
\* ReTry may still go through, and the workers run; the queue is not closed
InitPool ==
    /\ InitQueue
    /\ capacity = MaxCap
    /\ InitResults
    /\ limit = MaxLimit
    /\ InitStatus
    /\ toRetry = {Task(0, 1)}

NextPool ==
    \/ AddSend
    \/ AddCancelled
    \/ \E t \in toRetry : ReTryPush(t)
    \/ ReTryCheckClosed
    \/ ReTrySignal
    \/ \E w \in Workers : PopNoWaitLocked(w)
    \/ \E w \in Workers : PopNoWaitChan(w)
    \/ \E w \in Workers : PopWaitRecv(w)
    \/ \E w \in Workers : PopWaitCancelled(w)
    \/ \E w \in Workers : PopWaitLocked(w)
    \/ \E w \in Workers : ExecBegin(w)
    \/ \E w \in Workers : ExecEnd(w)
    \/ \E w \in Workers : ResultAdd(w)
    \/ \E w \in Workers : ResultAddCancelled(w)
    \/ Cancel
    \/ ClearCall
    \/ ClearCancel
    \/ ClearWait

\* every worker goroutine that can take a step is scheduled, and so is the
\* goroutine that called clear
FairPool ==
    /\ \A w \in Workers : WF_vars(RunStep(w))
    /\ WF_vars(ClearCancel \/ ClearWait)

SpecPool == InitPool /\ [][NextPool]_vars /\ FairPool

returned(w) == pc[w] \in {"stopped", "failed"}
C27_AllReturned == clpc \in {"returned", "again"} => \A w \in Workers : returned(w)
C27_SecondCall ==
    (clpc # "again" /\ clpc' = "again") =>
        UNCHANGED <<qvars, evars, wvars, handed, toRetry, rvars, lvars, svars, clearDone>>
C27_CancelStep == (clpc = "cancel" /\ clpc' # clpc) => ctxDone'

submitted == {Task(n, 0) : n \in 0 .. (nextAdd - 1)} \cup retried
\* the Next calls holding t between popWait's receive and its push
inFlight(t) == {w \in Workers : pc[w] = "wait_lk" /\ inTask[w] = t}
\* the copies of t in the fresh buffer and in the retry heap
queued(t) == Count(newTasks, t) + Count(retires, t)
\* a Next call returns a task that no Next call has returned before
C28_ReturnStep(w) ==
    (pc[w] # "got" /\ pc'[w] = "got") =>
        /\ task'[w] \in submitted
        /\ task'[w] \notin handed
\* a fresh task received by popWait and outranked is in the heap afterwards
C28_OutrankedStep(w) ==
    (pc[w] = "wait_lk" /\ pc'[w] = "got" /\ inTask[w] # Nil /\ task'[w] # inTask[w]) =>
        /\ Count(retires', inTask[w]) = 1
        /\ task'[w].txNum <= inTask[w].txNum
C28_Steps == [][\A w \in Workers : C28_ReturnStep(w) /\ C28_OutrankedStep(w)]_vars
\* the claim as stated: a task not returned yet is in the buffer or the heap
C28_Original ==
    /\ C28_Steps
    /\ [](~ctxDone => \A t \in submitted \ handed : queued(t) = 1)

\* C28: without cancellation, each task accepted by Add or ReTry is returned
\* by at most one Next call and, as long as it has not been returned, is held
\* exactly once: in the fresh buffer, in the retry heap, or by the one popWait
\* that has received it from the buffer and is about to push it onto the
\* heap; a returned task is held nowhere; a fresh task received by popWait but
\* outranked by a task of a smaller TxNum is in the heap when Next returns.
C28_Held ==
    ~ctxDone =>
        /\ \A t \in submitted \ handed : queued(t) + Cardinality(inFlight(t)) = 1
        /\ \A t \in TaskUniverse \ (submitted \ handed) :
              queued(t) + Cardinality(inFlight(t)) = 0
C28_NoLossNoDuplicate == C28_Steps /\ []C28_Held
\* a popWait received a fresh task, pushed it and returned a retried task of
\* a smaller TxNum instead; the fresh task is in the heap
C28_Witness ==
    \E w \in Workers :
        /\ pc[w] = "got" /\ path[w] = "wait"
        /\ inTask[w] # Nil /\ inTask[w].inc = 0
        /\ task[w].inc = 1 /\ task[w].txNum < inTask[w].txNum
        /\ Count(retires, inTask[w]) = 1
        /\ ~ctxDone /\ ~panicked

\* ------------------- the open dispatch queue and its workers, fairly run
\* producers call Add and ReTry; every worker calls Next again and again; the
\* queue is not closed and the context not cancelled
NextWorkers ==
    \/ AddSend
    \/ \E t \in toRetry : ReTryPush(t)
    \/ ReTryCheckClosed
    \/ ReTrySignal
    \/ \E w \in Workers : PopNoWaitLocked(w)
    \/ \E w \in Workers : PopNoWaitChan(w)
    \/ \E w \in Workers : PopWaitRecv(w)
    \/ \E w \in Workers : PopWaitLocked(w)
    \/ \E w \in Workers : TaskDone(w)

\* a started ReTry runs to its end, and each worker's Next call goes on
\* whenever one of its select cases is ready or its lock is free
FairWorkers ==
    /\ WF_vars(ReTryCheckClosed)
    /\ WF_vars(ReTrySignal)
    /\ \A w \in Workers : WF_vars(NextCall(w))
    /\ \A w \in Workers : WF_vars(TaskDone(w))

SpecWorkers == InitQ /\ [][NextWorkers]_vars /\ FairWorkers

\* ReTry(t) has just pushed t while a worker is blocked in popWait
retryCalled(t) ==
    /\ rpc = "chk" /\ rtask = t
    /\ \E w \in Workers : pc[w] = "wait"

\* C29: retry wake-up: when ReTry(t) is called on the open queue while a
\* worker is blocked in Next, some Next call returns t in the end, whatever
\* the fresh buffer holds at that time.
C29_RetryWakesNext ==
    \A t \in TaskUniverse : retryCalled(t) ~> (t \in handed)

\* r is in the buffer, in the hands of the Drain call that received it, in
\* the heap or popped: how many times in all
copies(r) ==
    Count(resultCh, r) + Count(results, r) + Count(popped, r)
        + (IF drained = r THEN 1 ELSE 0)
C30_Accounted == \A r \in offered : copies(r) = 1
\* but for a Drain call between its receive and its push, which is the first
\* thing it does under the lock, a result that left the buffer is in the heap
\* once, or popped once
C30_TakenInHeap ==
    lpc # "lock" =>
        /\ drained = NoResult
        /\ \A r \in offered \ Elems(resultCh) : Count(results, r) + Count(popped, r) = 1
\* Drain returns the context error from the sweep only, after the push
C30_CancelStep ==
    (lpc \in {"lock", "sweep"} /\ lpc' = "stopped") =>
        /\ lpc = "sweep"
        /\ results' = results

\* C30: no result is lost by the ResultsQueue: every result accepted by Add is
\* held exactly once, and once Drain or DrainNonBlocking has taken it from the
\* buffer and pushed it, it is in the heap exactly once until popped; when
\* cancellation is observed in the sweep that follows Drain's receive, the
\* received result is in the heap already.
C30_NoResultLost ==
    /\ [](C30_Accounted /\ C30_TakenInHeap)
    /\ [][C30_CancelStep]_vars
\* Drain received the result the commit loop expects, pushed it, and its
\* sweep ended with the context error (with limit 0 a DrainNonBlocking that
\* pushed a result returns nil at once)
C30_Witness ==
    /\ lpc = "stopped" /\ ctxDone
    /\ limit = 0
    /\ Len(results) = 1 /\ results[1].txNum = outputTxNum
    /\ results[1] \in offered
    /\ ~panicked

C31_Disjoint ==
    /\ Elems(pending) \cap Elems(inProgress) = {}
    /\ Elems(pending) \cap Elems(complete) = {}
    /\ Elems(inProgress) \cap Elems(complete) = {}
\* what a removeDependency call puts into pending was in none of the lists,
\* and it goes in once
C31_RemoveStep ==
    (smLast'.op = "removeDependency" /\ pending' # pending) =>
        LET new == Elems(pending') \ Elems(pending)
        IN  /\ new \cap (Elems(inProgress) \cup Elems(complete)) = {}
            /\ Len(pending') = Len(pending) + Cardinality(new)
            /\ Elems(pending) \subseteq Elems(pending')

\* C31: under the calls of the scheduler no index is in two of pending,
\* inProgress and complete, and removeDependency inserts into pending only
\* indices that are in none of the three lists.
C31_SetsDisjoint == []C31_Disjoint /\ [][C31_RemoveStep]_vars
\* removeDependency has returned, an index that was taken before is back in
\* pending behind a complete blocker, and it has no blocker left
C31_Witness ==
    /\ smLast.op = "removeDependency"
    /\ \E k \in Elems(pending) :
          /\ blocker[k] = {}
          /\ \E b \in Elems(complete) : b < k
          /\ \E j \in Elems(inProgress) : k < j
    /\ ~panicked

\* what pushPendingSet(getRevalidationRange(t)) leaves behind
C32_After(t) ==
    /\ \A x \in Elems(getRevalidationRange(t)) :
          x \in Elems(pending') /\ x \notin Elems(complete')
    /\ \A x \in 0 .. (t - 1) : x \in Elems(complete')
    /\ maxAllComplete' = t - 1
C32_Step ==
    \A t \in 0 .. maxAllComplete :
        PushPendingSet(getRevalidationRange(t)) =>
            /\ getRevalidationRange(t) # <<>>
            /\ C32_After(t)

\* C32: revalidation: for 0 <= t <= maxAllComplete(), after
\* pushPendingSet(getRevalidationRange(t)) every index of the returned range
\* is in pending and no longer in complete, the indices below t are still
\* complete, and maxAllComplete() returns t - 1.
C32_Revalidation == [][C32_Step]_vars
\* pushPendingSet has returned; index 0 is complete, the next index is back
\* in pending and a higher one is in progress
C32_Witness ==
    /\ smLast.op = "pushPendingSet"
    /\ maxAllComplete >= 0
    /\ (maxAllComplete + 1) \in Elems(pending)
    /\ \E j \in Elems(inProgress) : j > maxAllComplete + 1
    /\ ~panicked

\* C33: the two dependency maps mirror each other in every reachable state:
\* after any sequence of addDependencies, removeDependency, markComplete and
\* pushPendingSet, dependent d is in dependency[b] if and only if b is in
\* blocker[d].
C33_MapsMirror ==
    \A b \in TxIdx : \A d \in TxIdx :
        (d \in dependency[b]) <=> (b \in blocker[d])

C34_Step(tx) ==
    /\ (ClearPending(tx) /\ ~checkPending(tx)) =>
          (pending' = pending /\ ~panicked' /\ smLast'.err = "")
    /\ (ClearComplete(tx) /\ ~checkComplete(tx)) =>
          (complete' = complete /\ ~panicked' /\ smLast'.err = "")

\* C34: removing an absent element with expect = false is a no-op:
\* clearPending(tx) and clearComplete(tx) for a tx that is not in the list
\* leave the list unchanged and return normally for every tx, a tx larger
\* than every element of the list and an empty list included.
C34_ClearAbsentNoOp == [][\A tx \in TxIdx : C34_Step(tx)]_vars

ExpectedErr == "should not happen - element expected in list"

\* what a call that must find tx in inProgress does to inProgress
C35_Removed(tx) ==
    IF tx \in Elems(inProgress)
    THEN /\ ~panicked'
         /\ inProgress' = Ascending(Elems(inProgress) \ {tx})
    ELSE /\ panicked'
         /\ smLast'.err = ExpectedErr
         /\ inProgress' = inProgress
C35_Step(tx) ==
    /\ MarkComplete(tx) =>
          /\ C35_Removed(tx)
          /\ IF tx \in Elems(inProgress)
             THEN complete' = Ascending(Elems(complete) \cup {tx})
             ELSE complete' = complete
    /\ ClearInProgress(tx) => (C35_Removed(tx) /\ complete' = complete)

\* C35: markComplete(tx) and clearInProgress(tx) require tx to be in
\* inProgress: when it is, tx is removed from inProgress (and, for
\* markComplete, inserted into complete) and every other element is
\* untouched; when it is not, the call fails with the 'element expected in
\* list' error and tx is not added to complete.
C35_RequiresInProgress == [][\A tx \in TxIdx : C35_Step(tx)]_vars

\* ---------------------------------- the pipeline with either kind of Locker
InitLock ==
    /\ \E lk \in LockKinds : InitQueueLock(lk)
    /\ InitResults
    /\ InitStatus
    /\ toRetry = {}

SpecLock == InitLock /\ [][Next]_vars

\* the workers inside RunTxTaskNoLock (txTask.Execute)
Executing == {w \in Workers : pc[w] = "exec"}

\* the workers holding the pool's Locker
Holding ==
    IF lockKind = "Mutex" THEN {w \in Workers : execLock = w} ELSE readers

\* C36 (as claimed): in no reachable state are two workers of the pool inside
\* Execute at the same time; a worker holds the pool's lock exactly while it
\* executes, so Next and ResultsQueue.Add are called outside the lock.
C36_Original ==
    /\ Cardinality(Executing) <= 1
    /\ Holding = Executing

\* C36 (amended): every worker of the pool holds the shared Locker exactly
\* while it is inside Execute, so Next and ResultsQueue.Add are called outside
\* the lock; when the Locker is a mutual-exclusion lock no two workers are
\* inside Execute at the same time.
C36_LockHeldWhileExecuting ==
    /\ Holding = Executing
    /\ lockKind = "Mutex" => Cardinality(Executing) <= 1
\* one worker executes a task under the mutex while the other has a task from
\* Next and waits for the lock
C36_Witness ==
    /\ lockKind = "Mutex"
    /\ \E w, v \in Workers :
          /\ pc[w] = "exec" /\ execLock = w
          /\ pc[v] = "got" /\ task[v] # Nil
    /\ ~panicked

\* the tasks the queue holds: the heap, and the channel entries that are
\* tasks (ReTry's nil signals are not)
TasksHeld ==
    Len(retires) + Cardinality({i \in DOMAIN newTasks : newTasks[i] # Nil})

\* C37: QueueWithRetry.Len() equals the number of tasks the queue holds
\* (retried tasks in the heap plus fresh tasks in the buffer) in every
\* reachable state, also after ReTry calls whose task has already been taken
\* by Next; in particular Len() is 0 whenever no task is held.
C37_LenCountsTasks == QueueWithRetryLen = TasksHeld

\* ------------------------------- Close called by two goroutines, beside Add
\* a producer calls Add, two goroutines call Close once each, the workers
\* call Next; nothing is retried and the context is not cancelled
InitRace ==
    /\ InitQueue
    /\ InitResults
    /\ limit = MaxLimit
    /\ InitStatus
    /\ toRetry = {}

NextRace ==
    \/ AddSend
    \/ AddOnClosed
    \/ cpc = "idle" /\ CloseCheck
    \/ CloseSet
    \/ CloseChan
    \/ CloseCheckB
    \/ CloseSetB
    \/ CloseChanB
    \/ \E w \in Workers : PopNoWaitLocked(w)
    \/ \E w \in Workers : PopNoWaitChan(w)
    \/ \E w \in Workers : PopWaitRecv(w)
    \/ \E w \in Workers : PopWaitLocked(w)
    \/ \E w \in Workers : PopWaitClosed(w)
    \/ \E w \in Workers : TaskDone(w)

SpecRace == InitRace /\ [][NextRace]_vars

\* a Close call has ended
closeEnded(c) == c \in {"again", "returned"}

\* C38: Close is safe under concurrency: when two goroutines call Close on
\* the same queue concurrently, or Close runs beside Add, no call fails (no
\* close of a closed channel, no send on a closed channel) and once both
\* Close calls have ended the buffer is closed.
C38_CloseSafe ==
    /\ ~panicked
    /\ (closeEnded(cpc) /\ closeEnded(cpcB)) => chClosed

\* ------------------------------------ fresh tasks only, submitted unordered
\* the producer passes its tasks to Add in descending TxNum order, the workers
\* call Next, ReTry is never called
NextFifo ==
    \/ AddSendDescending
    \/ \E w \in Workers : PopNoWaitLocked(w)
    \/ \E w \in Workers : PopNoWaitChan(w)
    \/ \E w \in Workers : PopWaitRecv(w)
    \/ \E w \in Workers : PopWaitLocked(w)
    \/ \E w \in Workers : TaskDone(w)

SpecFifo == InitRace /\ [][NextFifo]_vars

\* the tasks that have left the buffer: returned by Next, or received by a
\* popWait that has not returned yet
leftBuffer == handed \cup {inTask[w] : w \in {v \in Workers : pc[v] = "wait_lk"}}

\* the buffer holds the submitted tasks that have not left it, oldest first,
\* and the tasks that left it are the first ones submitted
C39_BufferOrder ==
    LET n == nextAdd - Len(newTasks)
    IN  /\ newTasks = [i \in 1 .. Len(newTasks) |-> Task(Submitted(n + i - 1), 0)]
        /\ leftBuffer = {Task(Submitted(k), 0) : k \in 0 .. (n - 1)}

\* the tasks returned so far are the first ones submitted: no call has
\* returned ahead of a call that received an older task
returnedInOrder ==
    handed = {Task(Submitted(k), 0) : k \in 0 .. (Cardinality(handed) - 1)}

\* a Next call returns the task it took from the head of the buffer; when the
\* calls so far returned in submission order and no other call holds a
\* received task (as with a single consumer), it returns the next task
\* submitted
C39_Step ==
    \A w \in Workers :
        (pc[w] # "got" /\ pc'[w] = "got") =>
            /\ task'[w] = IF pc[w] = "wait_lk" THEN inTask[w] ELSE Head(newTasks)
            /\ (returnedInOrder /\ \A v \in Workers \ {w} : pc[v] # "wait_lk") =>
                  task'[w] = Task(Submitted(Cardinality(handed)), 0)

\* C39: fresh tasks keep their submission order: when ReTry is never called,
\* the tasks Next returns to a single consumer come in the order in which
\* they were passed to Add, whatever their TxNums (the queue does not sort
\* fresh tasks), and with several consumers every task is taken from the head
\* of the buffer, in buffer order.
C39_SubmissionOrder == []C39_BufferOrder /\ [][C39_Step]_vars
\* a Next call that waited in popWait has returned the first task submitted
\* while a task of smaller TxNum, submitted later, is in the buffer
C39_Witness ==
    \E w \in Workers :
        /\ pc[w] = "got" /\ path[w] = "wait"
        /\ handed = {task[w]}
        /\ task[w].txNum = Submitted(0)
        /\ newTasks # <<>>
        /\ Head(newTasks).txNum < task[w].txNum
        /\ \A v \in Workers \ {w} : pc[v] = "idle"

====
